---- MODULE Spec2Model ----
(***************************************************************************)
(* A state-machine model of the CHIP-8 interpreter of bamode/chip-8:       *)
(* the Cpu struct of src/src/cpu.rs, the instruction decoder of            *)
(* src/src/opcode.rs and the loader of src/src/chip.rs.                    *)
(*                                                                         *)
(* One cycle of the run loop is modelled in four steps, following the      *)
(* position of the single thread of control:                               *)
(*   "fetch"   Cpu::fetch_next                     (cpu.rs 71-76)          *)
(*   "decode"  the head of Cpu::execute_instruction (cpu.rs 79-86)         *)
(*   "execute" the match arm of the decoded opcode  (cpu.rs 87-226)        *)
(*   "timers"  the rest of the body of Chip8::run    (chip.rs 59-75)       *)
(* Before the loop the thread is at "load_font_set", "load_rom" and "run", *)
(* the calls of main.                                                      *)
(* A Rust panic ends the process: status leaves "running" and no action    *)
(* is enabled any more.                                                    *)
(***************************************************************************)
EXTENDS Integers, Sequences, FiniteSets, TLC

VARIABLES
    mem,      \* Cpu.mem    : [u8; 4096]
    disp,     \* Cpu.disp   : [[u8; 32]; 64], disp[column][row]
    index,    \* Cpu.index  : u16
    stack,    \* Cpu.stack  : [u16; 16]
    dt,       \* Cpu.dt     : u8
    st,       \* Cpu.st     : u8
    reg,      \* Cpu.reg    : [u8; 16]
    pc,       \* Cpu.pc     : u16
    inst,     \* the word returned by fetch_next (next_inst of the run loop)
    opcode,   \* the local `opcode` of execute_instruction
    msg,      \* the Chip8Message returned by the last execute_instruction
    at,       \* position of the thread: "fetch", "decode", "execute", "timers"
    status,   \* "running", or the panic that ended the process
    events,   \* the terminal events crossterm has queued and not yet read
    typing,   \* the terminal events the user has yet to cause, in order
    elapsed,  \* more than 1/60 s has passed since Chip8.timer
    rom,      \* the bytes of the ROM file given on the command line
    sent,     \* the messages sent on Chip8.tx so far, oldest first
    received, \* how many of them the holder of the Receiver has taken
    connected, \* the Receiver of Chip8.tx has not been dropped
    ticks,    \* history: the timer ticks since 1/60 s last expired (2: 2 or more)
    hist,     \* history: the Cpu as it was before each of the last instructions
    frames,   \* history: the return addresses a last-in first-out stack would hold
    inRange   \* history: the call depth has stayed within 0..16 so far

cpuVars == <<mem, disp, index, stack, dt, st, reg, pc>>
vars == <<mem, disp, index, stack, dt, st, reg, pc, inst, opcode, msg, at,
          status, events, typing, elapsed, ticks, sent, received, connected,
          rom, hist, frames, inRange>>

----------------------------------------------------------------------------
(* Sizes and addresses of the program.                                     *)

MemSize == 4096
DispWidth == 64
DispHeight == 32
StackSize == 16
NumRegs == 16
START == 512
FontBase == 80
VF == 15
ByteMax == 255

(* Bounds of the model.                                                    *)
HistLen == 2
StackRomWords == 5
ExtraReturns == 2
MaxSpriteRows == 2
MaxTyped == 2

Min(a, b) == IF a < b THEN a ELSE b

----------------------------------------------------------------------------
(* Bit operations on unsigned integers.                                    *)

RECURSIVE BitAnd(_, _)
BitAnd(a, b) ==
    IF a = 0 \/ b = 0 THEN 0
    ELSE (a % 2) * (b % 2) + 2 * BitAnd(a \div 2, b \div 2)

RECURSIVE BitOr(_, _)
BitOr(a, b) ==
    IF a = 0 THEN b
    ELSE IF b = 0 THEN a
    ELSE (IF a % 2 = 1 \/ b % 2 = 1 THEN 1 ELSE 0) + 2 * BitOr(a \div 2, b \div 2)

RECURSIVE BitXor(_, _)
BitXor(a, b) ==
    IF a = 0 THEN b
    ELSE IF b = 0 THEN a
    ELSE ((a + b) % 2) + 2 * BitXor(a \div 2, b \div 2)

\* Bit k of a byte in Msb0 order (k = 0 is the most significant bit).
BitMsb0(b, k) == (b \div (2 ^ (7 - k))) % 2

----------------------------------------------------------------------------
(* The font table and the loader.                                          *)

FONT_SET ==
    << 240, 144, 144, 144, 240,     32,  96,  32,  32, 112,
       240,  16, 240, 128, 240,    240,  16, 240,  16, 240,
       144, 144, 240,  16,  16,    240, 128, 240,  16, 240,
       240, 128, 240, 144, 240,    240,  16,  32,  64,  64,
       240, 144, 240, 144, 240,    240, 144, 240,  16, 240,
       240, 144, 240, 144, 144,    224, 144, 224, 144, 224,
       240, 128, 128, 128, 240,    224, 144, 144, 144, 224,
       240, 128, 240, 128, 240,    240, 128, 240, 128, 128 >>

ZeroMem == [a \in 0..(MemSize - 1) |-> 0]
ZeroDisp == [c \in 0..(DispWidth - 1) |-> [r \in 0..(DispHeight - 1) |-> 0]]
ZeroStack == [i \in 0..(StackSize - 1) |-> 0]
ZeroReg == [i \in 0..(NumRegs - 1) |-> 0]

\* The loop `for (i, byte) in bytes.iter().enumerate() { mem[i + base] = *byte }`
\* of load_font_set and load_rom, from the i-th byte (i = 1, 2, ...) on.
RECURSIVE CopyBytes(_, _, _, _)
CopyBytes(m, bytes, base, i) ==
    IF i > Len(bytes) THEN m
    ELSE CopyBytes([m EXCEPT ![base + i - 1] = bytes[i]], bytes, base, i + 1)

\* Chip8::load_font_set: mem[i + 0x50] = FONT_SET[i].
load_font_set(m) == CopyBytes(m, FONT_SET, FontBase, 1)

\* The writes r.mem[base + lo - 1] = bytes[lo]; ...; r.mem[base + hi - 1] =
\* bytes[hi] in this order (the first half, then the second half).  A write
\* at 4096 or above panics and ends them.
RECURSIVE StoreRange(_, _, _, _, _)
StoreRange(r, base, bytes, lo, hi) ==
    IF lo > hi \/ r.panic # "" THEN r
    ELSE IF lo = hi
    THEN IF base + lo - 1 >= MemSize
         THEN [mem |-> r.mem, panic |-> "panic: index out of bounds (mem)"]
         ELSE [mem |-> [r.mem EXCEPT ![base + lo - 1] = bytes[lo]], panic |-> ""]
    ELSE StoreRange(StoreRange(r, base, bytes, lo, (lo + hi) \div 2),
                    base, bytes, ((lo + hi) \div 2) + 1, hi)

\* The writes m[base] = bytes[1]; m[base + 1] = bytes[2]; ... in this order,
\* from the i-th on: the memory they leave and the panic they end in, if any.
StoreBytes(m, base, bytes, i) ==
    StoreRange([mem |-> m, panic |-> ""], base, bytes, i, Len(bytes))

\* As LoadRomResult, but the bytes are stored from START + 1 on.
LoadRomResult_OffByOne(m, file) == StoreBytes(m, START + 1, file, 1)

\* Chip8::load_rom: mem[i + 0x200] = file[i] for each byte of the file in
\* turn; the memory it leaves and the panic it ends in, if any.
LoadRomResult(m, file) == StoreBytes(m, START, file, 1)

load_rom(m, file) == LoadRomResult(m, file).mem

FontMem == load_font_set(ZeroMem)

\* The message that clears the terminal.
ClearScreenMsg == [kind |-> "ClearScreen"]

\* Cpu::new, then load_font_set and load_rom as main does before run, and the
\* first statement of run, which sends ClearScreen; the user
\* is going to cause the terminal events keys.
InitWithInput(file, keys) ==
    /\ events = << >>
    /\ mem = load_rom(FontMem, file)
    /\ inst = 0
    /\ at = "fetch"
    /\ disp = ZeroDisp
    /\ index = 0
    /\ stack = ZeroStack
    /\ dt = 0
    /\ st = 0
    /\ reg = ZeroReg
    /\ pc = START
    /\ opcode = "None"
    /\ msg = "None"
    /\ status = "running"
    /\ typing = keys
    /\ elapsed = FALSE
    /\ ticks = 0
    /\ rom = file
    /\ sent = << ClearScreenMsg >>
    /\ received = 0
    /\ connected = TRUE
    /\ hist = << >>
    /\ frames = << >>
    /\ inRange = TRUE

InitWith(file) == InitWithInput(file, << >>)

\* Before the run loop, as main calls them: Chip8::new has returned and
\* load_font_set, load_rom and run are called in turn.
InitNew(file) ==
    /\ events = << >>
    /\ mem = ZeroMem
    /\ inst = 0
    /\ at = "load_font_set"
    /\ disp = ZeroDisp
    /\ index = 0
    /\ stack = ZeroStack
    /\ dt = 0
    /\ st = 0
    /\ reg = ZeroReg
    /\ pc = START
    /\ opcode = "None"
    /\ msg = "None"
    /\ status = "running"
    /\ typing = << >>
    /\ elapsed = FALSE
    /\ ticks = 0
    /\ rom = file
    /\ sent = << >>
    /\ received = 0
    /\ connected = TRUE
    /\ hist = << >>
    /\ frames = << >>
    /\ inRange = TRUE

\* The font set and the ROM file have been loaded and run is called next.
InitLoaded(file) ==
    /\ events = << >>
    /\ mem = load_rom(FontMem, file)
    /\ inst = 0
    /\ at = "run"
    /\ disp = ZeroDisp
    /\ index = 0
    /\ stack = ZeroStack
    /\ dt = 0
    /\ st = 0
    /\ reg = ZeroReg
    /\ pc = START
    /\ opcode = "None"
    /\ msg = "None"
    /\ status = "running"
    /\ typing = << >>
    /\ elapsed = FALSE
    /\ ticks = 0
    /\ rom = file
    /\ sent = << >>
    /\ received = 0
    /\ connected = TRUE
    /\ hist = << >>
    /\ frames = << >>
    /\ inRange = TRUE

call_load_font_set ==
    /\ at = "load_font_set"
    /\ status = "running"
    /\ mem' = load_font_set(mem)
    /\ at' = "load_rom"
    /\ UNCHANGED <<disp, index, stack, dt, st, reg, pc, inst, opcode, msg, status,
                   events, typing, elapsed, ticks, sent, received, connected, rom, hist, frames,
                   inRange>>

\* Chip8::load_rom with the bytes of the file; a panic ends the process.
call_load_rom ==
    /\ at = "load_rom"
    /\ status = "running"
    /\ mem' = LoadRomResult(mem, rom).mem
    /\ IF LoadRomResult(mem, rom).panic = ""
       THEN at' = "run" /\ status' = status
       ELSE at' = at /\ status' = LoadRomResult(mem, rom).panic
    /\ UNCHANGED <<disp, index, stack, dt, st, reg, pc, inst, opcode, msg,
                   events, typing, elapsed, ticks, sent, received, connected, rom, hist, frames,
                   inRange>>

\* The first statement of Chip8::run: ClearScreen is sent, then the loop is
\* entered.
call_run ==
    /\ at = "run"
    /\ status = "running"
    /\ IF connected
       THEN /\ sent' = Append(sent, ClearScreenMsg)
            /\ at' = "fetch"
            /\ UNCHANGED status
       ELSE /\ status' = "panic: unwrap on Err(SendError)"
            /\ UNCHANGED <<sent, at>>
    /\ UNCHANGED <<mem, disp, index, stack, dt, st, reg, pc, inst, opcode, msg,
                   events, typing, elapsed, ticks, received, connected, rom,
                   hist, frames, inRange>>

----------------------------------------------------------------------------
(* ROM images: a program is a sequence of 16-bit words, stored big-endian. *)

RECURSIVE WordsToBytes(_)
WordsToBytes(ws) ==
    IF ws = << >> THEN << >>
    ELSE << Head(ws) \div 256, Head(ws) % 256 >> \o WordsToBytes(Tail(ws))

\* Address of the k-th word (k = 1, 2, ...) of a program.
WordAddr(k) == START + 2 * (k - 1)

\* Instruction words.
I_CLS == 224                                  \* 00E0
I_RET == 238                                  \* 00EE
I_JP(nnn) == 4096 + nnn                       \* 1NNN
I_CALL(nnn) == 2 * 4096 + nnn                 \* 2NNN
I_SE(x, kk) == 3 * 4096 + x * 256 + kk        \* 3XNN
I_SNE(x, kk) == 4 * 4096 + x * 256 + kk       \* 4XNN
I_SEV(x, y) == 5 * 4096 + x * 256 + y * 16    \* 5XY0
I_LD(x, kk) == 6 * 4096 + x * 256 + kk        \* 6XNN
I_ADD(x, kk) == 7 * 4096 + x * 256 + kk       \* 7XNN
I_SNEV(x, y) == 9 * 4096 + x * 256 + y * 16   \* 9XY0
I_ALU(x, y, n) == 8 * 4096 + x * 256 + y * 16 + n   \* 8XYN
I_LDI(nnn) == 10 * 4096 + nnn                 \* ANNN
I_JPV0(nnn) == 11 * 4096 + nnn                \* BNNN
I_DRW(x, y, n) == 13 * 4096 + x * 256 + y * 16 + n  \* DXYN
I_SKP(x) == 14 * 4096 + x * 256 + 158         \* EX9E
I_SKNP(x) == 14 * 4096 + x * 256 + 161        \* EXA1
I_KEY(x) == 15 * 4096 + x * 256 + 10          \* FX0A
I_LDVDT(x) == 15 * 4096 + x * 256 + 7         \* FX07
I_LDDT(x) == 15 * 4096 + x * 256 + 21         \* FX15
I_LDST(x) == 15 * 4096 + x * 256 + 24         \* FX18
I_ADDI(x) == 15 * 4096 + x * 256 + 30         \* FX1E
I_FONT(x) == 15 * 4096 + x * 256 + 41         \* FX29
I_BCD(x) == 15 * 4096 + x * 256 + 51          \* FX33
I_SAVE(x) == 15 * 4096 + x * 256 + 85         \* FX55
I_LOAD(x) == 15 * 4096 + x * 256 + 101        \* FX65

\* A program that ends in the usual halt idiom, a jump to itself.
Halted(ws) == ws \o << I_JP(WordAddr(Len(ws) + 1)), I_JP(WordAddr(Len(ws) + 2)) >>

----------------------------------------------------------------------------
(* The decoder.                                                            *)

\* As OP, but the family is masked and not shifted down (inst & 0xF000).
OP_MasksOnly(w) == w - (w % 4096)

\* Cpu::execute_instruction, the operand fields.
OP(w) == w \div 4096
NNN(w) == w % 4096
N(w) == w % 16
X(w) == (w \div 256) % 16
Y(w) == (w \div 16) % 16
KK(w) == w % 256

\* Family 8 of Opcode::from, selected by n.
Family8(n) ==
    CASE n = 0 -> "SetVXToVY"
      [] n = 1 -> "BinaryOr"
      [] n = 2 -> "BinaryAnd"
      [] n = 3 -> "BinaryXor"
      [] n = 4 -> "AddVYToVX"
      [] n = 5 -> "SubVXFromVY"
      [] n = 6 -> "ShiftRight"
      [] n = 7 -> "SubVYFromVX"
      [] n = 14 -> "ShiftLeft"
      [] OTHER -> "unreachable"

\* Family E of Opcode::from, selected by kk.
FamilyE(kk) ==
    CASE kk = 158 -> "SkipIfKey"
      [] kk = 161 -> "SkipIfNotKey"
      [] OTHER -> "unreachable"

\* Family F of Opcode::from, selected by kk.
FamilyF(kk) ==
    CASE kk = 7 -> "SetVXToDT"
      [] kk = 21 -> "SetDTToVX"
      [] kk = 24 -> "SetSTToVX"
      [] kk = 30 -> "AddI"
      [] kk = 10 -> "GetKey"
      [] kk = 41 -> "FontCharacter"
      [] kk = 51 -> "BinaryCodedDecimalConversion"
      [] kk = 85 -> "SaveRegisterToMemory"
      [] kk = 101 -> "LoadRegisterFromMemory"
      [] OTHER -> "unreachable"

\* As OpcodeFrom, but family 0 is told apart by kk alone, without x.
OpcodeFrom_IgnoresX(op, x, y, n, kk) ==
    CASE op = 0 ->
            IF kk = 224 THEN "Clear"
            ELSE IF kk = 238 THEN "ReturnSub"
            ELSE "None"
      [] op = 1 -> "Jump"
      [] op = 2 -> "GotoSub"
      [] op = 3 -> "SkipEqual"
      [] op = 4 -> "SkipNotEqual"
      [] op = 5 -> "SkipVXEqualVY"
      [] op = 6 -> "SetVX"
      [] op = 7 -> "AddVX"
      [] op = 8 -> Family8(n)
      [] op = 9 -> "SkipVXNotEqualVY"
      [] op = 10 -> "SetI"
      [] op = 11 -> "JumpWithOffset"
      [] op = 12 -> "Random"
      [] op = 13 -> "Draw"
      [] op = 14 -> FamilyE(kk)
      [] op = 15 -> FamilyF(kk)
      [] OTHER -> "Error"

\* impl From<&RawOpcode> for Opcode.  "unreachable" stands for the panic of
\* unreachable!().
OpcodeFrom(op, x, y, n, kk) ==
    CASE op = 0 ->
            IF x = 0 /\ y = 14 /\ n = 0 THEN "Clear"
            ELSE IF x = 0 /\ y = 14 /\ n = 14 THEN "ReturnSub"
            ELSE "None"
      [] op = 1 -> "Jump"
      [] op = 2 -> "GotoSub"
      [] op = 3 -> "SkipEqual"
      [] op = 4 -> "SkipNotEqual"
      [] op = 5 -> "SkipVXEqualVY"
      [] op = 6 -> "SetVX"
      [] op = 7 -> "AddVX"
      [] op = 8 -> Family8(n)
      [] op = 9 -> "SkipVXNotEqualVY"
      [] op = 10 -> "SetI"
      [] op = 11 -> "JumpWithOffset"
      [] op = 12 -> "Random"
      [] op = 13 -> "Draw"
      [] op = 14 -> FamilyE(kk)
      [] op = 15 -> FamilyF(kk)
      [] OTHER -> "Error"

----------------------------------------------------------------------------
(* History.                                                                *)

\* The opcodes that query the keyboard.
KeyQueries == {"SkipIfKey", "SkipIfNotKey", "GetKey"}

\* The Cpu at the moment an instruction starts to execute (after its fetch),
\* and for a key query the event queue that it polls.
Snapshot ==
    [ inst |-> inst, opcode |-> opcode, addr |-> pc - 2, pc |-> pc,
      mem |-> mem, reg |-> reg, index |-> index, stack |-> stack, disp |-> disp,
      polled |-> IF opcode \in KeyQueries THEN events ELSE << >>,
      frames |-> frames, inRange |-> inRange ]

Remember == hist' = SubSeq(<< Snapshot >> \o hist, 1, Min(HistLen, Len(hist) + 1))

----------------------------------------------------------------------------
(* The steps of a cycle.                                                   *)

\* Cpu::fetch_next.  Indexing mem at 4096 or above panics.
fetch_next ==
    /\ at = "fetch"
    /\ status = "running"
    /\ IF pc + 1 >= MemSize
       THEN /\ status' = "panic: index out of bounds (mem)"
            /\ UNCHANGED <<mem, disp, index, stack, dt, st, reg, pc, inst,
                           opcode, msg, at, events, typing, elapsed, ticks,
                           sent, received, connected, rom, hist, frames,
                           inRange>>
       ELSE /\ inst' = mem[pc] * 256 + mem[pc + 1]
            /\ pc' = pc + 2
            /\ at' = "decode"
            /\ UNCHANGED <<mem, disp, index, stack, dt, st, reg, opcode, msg,
                           status, events, typing, elapsed, ticks, sent, received, connected, rom,
                           hist, frames, inRange>>

\* As decode, but the sub-selector of a family is taken from the value of Vx
\* and not from the low nibble of the word.
decode_SelectsByVx ==
    /\ at = "decode"
    /\ status = "running"
    /\ LET o == OpcodeFrom(OP(inst), X(inst), Y(inst), reg[X(inst)] % 16,
                           KK(inst)) IN
       IF o = "unreachable"
       THEN /\ status' = "panic: entered unreachable code"
            /\ UNCHANGED <<opcode, at>>
       ELSE /\ opcode' = o
            /\ at' = "execute"
            /\ status' = status
    /\ UNCHANGED <<mem, disp, index, stack, dt, st, reg, pc, inst, msg,
                   events, typing, elapsed, ticks, sent, received, connected, rom, hist, frames, inRange>>

\* Cpu::execute_instruction up to `let opcode = Opcode::from(&raw_op)`.
decode ==
    /\ at = "decode"
    /\ status = "running"
    /\ LET o == OpcodeFrom(OP(inst), X(inst), Y(inst), N(inst), KK(inst)) IN
       IF o = "unreachable"
       THEN /\ status' = "panic: entered unreachable code"
            /\ UNCHANGED <<opcode, at>>
       ELSE /\ opcode' = o
            /\ at' = "execute"
            /\ status' = status
    /\ UNCHANGED <<mem, disp, index, stack, dt, st, reg, pc, inst, msg,
                   events, typing, elapsed, ticks, sent, received, connected, rom, hist, frames, inRange>>

\* An arm of the match of execute_instruction is entered.
Arm(o) == at = "execute" /\ status = "running" /\ opcode = o

\* The arm returns message m to its caller; in the run loop the timer check
\* comes next.
Return(m) ==
    /\ msg' = m
    /\ at' = "timers"
    /\ Remember
    /\ UNCHANGED <<inst, opcode, status, typing, elapsed, ticks, sent, received, connected, rom>>

\* The arm panics.
Panic(why) ==
    /\ status' = why
    /\ Remember
    /\ UNCHANGED <<mem, disp, index, stack, dt, st, reg, pc, inst, opcode, msg,
                   at, events, typing, elapsed, ticks, sent, received, connected, rom, frames, inRange>>

\* The payload of a DrawScreen message: a copy of the display as the draw
\* left it.
DrawScreenMsg(d) == [kind |-> "DrawScreen", frame |-> d]

\* The display the Draw arm puts into its DrawScreen message: a copy of
\* Cpu.disp as the draw left it (the send is the next step of the thread).
DrawPayload == disp

\* As send_message, but over a rendezvous channel (sync_channel(0)): a send
\* completes only once every earlier message has been received.
send_message_Rendezvous ==
    /\ msg \in {"ClearScreen", "DrawScreen"} => received = Len(sent)
    /\ sent' = CASE msg = "ClearScreen" -> Append(sent, ClearScreenMsg)
                [] msg = "DrawScreen" -> Append(sent, DrawScreenMsg(DrawPayload))
                [] OTHER -> sent

\* As send_message, but a ClearScreen message is dropped.
send_message_DropsClear ==
    sent' = CASE msg = "DrawScreen" -> Append(sent, DrawScreenMsg(DrawPayload))
              [] OTHER -> sent

\* Chip8::run after execute_instruction has returned: the display signals are
\* sent on the channel, the others are not.
send_message ==
    sent' = CASE msg = "ClearScreen" -> Append(sent, ClearScreenMsg)
              [] msg = "DrawScreen" -> Append(sent, DrawScreenMsg(DrawPayload))
              [] OTHER -> sent

\* A timer tick is counted.
CountTick == ticks' = IF ticks < 2 THEN ticks + 1 ELSE ticks

\* As timer_check, but the sound timer is only decremented while the delay
\* timer is running.
timer_check_Coupled ==
    /\ at = "timers"
    /\ status = "running"
    /\ send_message
    /\ IF elapsed
       THEN /\ elapsed' = FALSE
            /\ dt' = IF dt > 0 THEN dt - 1 ELSE dt
            /\ st' = IF st > 0 /\ dt > 0 THEN st - 1 ELSE st
            /\ CountTick
       ELSE UNCHANGED <<elapsed, dt, st, ticks>>
    /\ at' = "fetch"
    /\ UNCHANGED <<mem, disp, index, stack, reg, pc, inst, opcode, msg, status,
                   events, typing, received, connected, rom, hist, frames,
                   inRange>>

\* As timer_check, but without the reference clock: the timers are
\* decremented in every cycle, as Chip8::run of main.rs (lines 67-85) does.
timer_check_EveryCycle ==
    /\ at = "timers"
    /\ status = "running"
    /\ send_message
    /\ dt' = IF dt > 0 THEN dt - 1 ELSE dt
    /\ st' = IF st > 0 THEN st - 1 ELSE st
    /\ CountTick
    /\ at' = "fetch"
    /\ UNCHANGED <<mem, disp, index, stack, reg, pc, inst, opcode, msg, status,
                   events, typing, received, connected, rom, elapsed, hist,
                   frames, inRange>>

\* Sender::send returns Err only when the Receiver has been dropped.
SendFails == msg \in {"ClearScreen", "DrawScreen"} /\ ~connected

\* Chip8::run after execute_instruction has returned: the message is sent,
\* and run returns the error if that fails; when more than 1/60 s has passed
\* since Chip8.timer, the reference is reset and each timer that is not 0 is
\* decremented; then, after the sleep of Clock::tick, the loop fetches again.
timer_check ==
    /\ at = "timers"
    /\ status = "running"
    /\ IF SendFails
       THEN /\ status' = "Err(SendError)"
            /\ UNCHANGED <<sent, elapsed, dt, st, ticks, at>>
       ELSE /\ send_message
            /\ IF elapsed
               THEN /\ elapsed' = FALSE
                    /\ dt' = IF dt > 0 THEN dt - 1 ELSE dt
                    /\ st' = IF st > 0 THEN st - 1 ELSE st
                    /\ CountTick
               ELSE UNCHANGED <<elapsed, dt, st, ticks>>
            /\ at' = "fetch"
            /\ UNCHANGED status
    /\ UNCHANGED <<mem, disp, index, stack, reg, pc, inst, opcode, msg,
                   events, typing, received, connected, rom, hist, frames,
                   inRange>>

\* Time passes: Instant::now() is now more than 1/60 s after Chip8.timer.
Expire ==
    /\ ~elapsed
    /\ elapsed' = TRUE
    /\ ticks' = 0
    /\ UNCHANGED <<mem, disp, index, stack, dt, st, reg, pc, inst, opcode, msg,
                   at, status, events, typing, sent, received, connected, rom, hist, frames, inRange>>

----------------------------------------------------------------------------
(* Subroutines.                                                            *)

\* return_sub: the loop runs over the slots from 15 down to 0 without a break,
\* so the slot it ends on is the lowest one that is not 0 (0 when all are 0).
ReturnSlot(s) ==
    IF \E i \in 0..(StackSize - 1) : s[i] # 0
    THEN CHOOSE i \in 0..(StackSize - 1) :
            /\ s[i] # 0
            /\ \A j \in 0..(StackSize - 1) : s[j] # 0 => i <= j
    ELSE 0

\* goto_sub: the first slot that is 0, found with a break (0 when none is 0).
CallSlot(s) ==
    IF \E i \in 0..(StackSize - 1) : s[i] = 0
    THEN CHOOSE i \in 0..(StackSize - 1) :
            /\ s[i] = 0
            /\ \A j \in 0..(StackSize - 1) : s[j] = 0 => i <= j
    ELSE 0

jump(nnn) ==
    /\ pc' = nnn
    /\ UNCHANGED <<mem, disp, index, stack, dt, st, reg>>

return_sub ==
    /\ pc' = IF \E i \in 0..(StackSize - 1) : stack[i] # 0
             THEN stack[ReturnSlot(stack)] ELSE pc
    /\ stack' = [stack EXCEPT ![ReturnSlot(stack)] = 0]
    /\ UNCHANGED <<mem, disp, index, dt, st, reg>>

\* As goto_sub, but the address of the call itself is stored.
goto_sub_StoresCallSite(nnn) ==
    /\ stack' = [stack EXCEPT ![CallSlot(stack)] = pc - 2]
    /\ pc' = nnn
    /\ UNCHANGED <<mem, disp, index, dt, st, reg>>

goto_sub(nnn) ==
    /\ stack' = [stack EXCEPT ![CallSlot(stack)] = pc]
    /\ pc' = nnn
    /\ UNCHANGED <<mem, disp, index, dt, st, reg>>

exec_None ==
    /\ Arm("None")
    /\ UNCHANGED cpuVars
    /\ UNCHANGED <<frames, inRange, events>>
    /\ Return("None")

exec_Error ==
    /\ Arm("Error")
    /\ Panic("panic: explicit panic")

exec_Jump ==
    /\ Arm("Jump")
    /\ jump(NNN(inst))
    /\ UNCHANGED <<frames, inRange, events>>
    /\ Return("None")

\* jump_with_offset: nnn + V0 is at most 0xFFF + 0xFF and fits a u16.
jump_with_offset(nnn) ==
    /\ pc' = nnn + reg[0]
    /\ UNCHANGED <<mem, disp, index, stack, dt, st, reg>>

exec_JumpWithOffset ==
    /\ Arm("JumpWithOffset")
    /\ jump_with_offset(NNN(inst))
    /\ UNCHANGED <<frames, inRange, events>>
    /\ Return("None")

exec_ReturnSub ==
    /\ Arm("ReturnSub")
    /\ return_sub
    /\ UNCHANGED events
    /\ IF inRange /\ Len(frames) > 0
       THEN frames' = SubSeq(frames, 1, Len(frames) - 1) /\ inRange' = inRange
       ELSE frames' = frames /\ inRange' = FALSE
    /\ Return("None")

exec_GotoSub ==
    /\ Arm("GotoSub")
    /\ goto_sub(NNN(inst))
    /\ UNCHANGED events
    /\ IF inRange /\ Len(frames) < StackSize
       THEN frames' = Append(frames, pc) /\ inRange' = inRange
       ELSE frames' = frames /\ inRange' = FALSE
    /\ Return("None")

----------------------------------------------------------------------------
(* Programs of calls and returns.                                          *)

\* Every program of StackRomWords words, each a call of the next word, a call
\* of the word after the next, or a return.
StackWord(kind, k) ==
    CASE kind = "call1" -> I_CALL(WordAddr(k + 1))
      [] kind = "call2" -> I_CALL(WordAddr(k + 2))
      [] OTHER -> I_RET

ShortStackRoms ==
    { [k \in 1..StackRomWords |-> StackWord(f[k], k)] :
        f \in [1..StackRomWords -> {"call1", "call2", "ret"}] }

\* StackSize + 1 nested calls, each of the next word, then r returns.
DeepStackRom(r) ==
    [k \in 1..(StackSize + 1 + r) |->
        IF k <= StackSize + 1 THEN I_CALL(WordAddr(k + 1)) ELSE I_RET]

StackRoms == ShortStackRoms \cup { DeepStackRom(r) : r \in 0..ExtraReturns }

InitStack == \E ws \in StackRoms : InitWith(WordsToBytes(Halted(ws)))

NextStack ==
    \/ fetch_next
    \/ decode
    \/ timer_check
    \/ exec_Jump
    \/ exec_ReturnSub
    \/ exec_GotoSub

SpecStack == InitStack /\ [][NextStack]_vars

----------------------------------------------------------------------------
(* Registers and the index register.                                       *)

set_vx(x, nn) ==
    /\ reg' = [reg EXCEPT ![x] = nn % 256]
    /\ UNCHANGED <<mem, disp, index, stack, dt, st, pc>>

set_i(nnn) ==
    /\ index' = nnn
    /\ UNCHANGED <<mem, disp, stack, dt, st, reg, pc>>

exec_SetVX ==
    /\ Arm("SetVX")
    /\ set_vx(X(inst), KK(inst))
    /\ UNCHANGED <<frames, inRange, events>>
    /\ Return("None")

exec_SetI ==
    /\ Arm("SetI")
    /\ set_i(NNN(inst))
    /\ UNCHANGED <<frames, inRange, events>>
    /\ Return("None")

----------------------------------------------------------------------------
(* The display.                                                            *)

\* The Clear arm returns ClearScreen and leaves the Cpu alone.
exec_Clear ==
    /\ Arm("Clear")
    /\ UNCHANGED cpuVars
    /\ UNCHANGED <<frames, inRange, events>>
    /\ Return("ClearScreen")

\* draw, the body of the loop over the bits of a sprite byte: what a bit b does
\* to the pixel it lands on and to VF.
BlitBit_KeepsLitPixel(b, pix, vf) ==
    IF b /\ pix = 1 THEN [pix |-> 1, vf |-> 1]
    ELSE IF b /\ pix = 0 THEN [pix |-> 1, vf |-> 0]
    ELSE [pix |-> pix, vf |-> vf]

\* As BlitBit, but the bit is added to the pixel instead of flipping it.
BlitBit_AddsBit(b, pix, vf) ==
    IF b /\ pix >= 1 THEN [pix |-> pix + 1, vf |-> 1]
    ELSE IF b /\ pix = 0 THEN [pix |-> 1, vf |-> 0]
    ELSE [pix |-> pix, vf |-> vf]

BlitBit(b, pix, vf) ==
    IF b /\ pix = 1 THEN [pix |-> 0, vf |-> 1]
    ELSE IF b /\ pix = 0 THEN [pix |-> 1, vf |-> 0]
    ELSE [pix |-> pix, vf |-> vf]

\* draw, the inner loop: bits k..7 of sprite_data, from column xc on, in row
\* yc.  A set bit reads disp[xc][yc], which panics for a row of 32 or more.
RECURSIVE DrawRow(_, _, _, _, _, _)
DrawRow(d, vf, sprite_data, k, xc, yc) ==
    IF k > 7 THEN [disp |-> d, vf |-> vf, panic |-> ""]
    ELSE
        LET b == BitMsb0(sprite_data, k) = 1 IN
        IF b /\ yc >= DispHeight
        THEN [disp |-> d, vf |-> vf, panic |-> "panic: index out of bounds (disp)"]
        ELSE
            LET r == IF b THEN BlitBit(b, d[xc][yc], vf)
                     ELSE [pix |-> 0, vf |-> vf]
                d1 == IF b THEN [d EXCEPT ![xc][yc] = r.pix] ELSE d
            IN  IF xc = DispWidth - 1
                THEN [disp |-> d1, vf |-> r.vf, panic |-> ""]
                ELSE DrawRow(d1, r.vf, sprite_data, k + 1, xc + 1, yc)

\* draw, the outer loop: sprite rows i..n-1, the next one landing in row yc.
RECURSIVE DrawRows(_, _, _, _, _, _)
DrawRows(d, vf, i, n, x0, yc) ==
    IF i >= n THEN [disp |-> d, vf |-> vf, panic |-> ""]
    ELSE IF index + i >= MemSize
    THEN [disp |-> d, vf |-> vf, panic |-> "panic: index out of bounds (mem)"]
    ELSE
        LET r == DrawRow(d, vf, mem[index + i], 0, x0, yc) IN
        IF r.panic # "" THEN r
        ELSE IF yc + 1 = DispHeight - 1 THEN r
        ELSE DrawRows(r.disp, r.vf, i + 1, n, x0, yc + 1)

\* draw: the outcome of the whole blit.
DrawResult(x, y, n) ==
    DrawRows(disp, 0, 0, n, reg[x] % DispWidth, reg[y] % DispHeight)

draw(x, y, n) ==
    /\ disp' = DrawResult(x, y, n).disp
    /\ reg' = [reg EXCEPT ![VF] = DrawResult(x, y, n).vf]
    /\ UNCHANGED <<mem, index, stack, dt, st, pc>>

exec_Draw ==
    /\ Arm("Draw")
    /\ draw(X(inst), Y(inst), N(inst))
    /\ UNCHANGED <<frames, inRange, events>>
    /\ IF DrawResult(X(inst), Y(inst), N(inst)).panic = ""
       THEN Return("DrawScreen")
       ELSE /\ status' = DrawResult(X(inst), Y(inst), N(inst)).panic
            /\ Remember
            /\ UNCHANGED <<inst, opcode, msg, at, typing, elapsed, ticks, sent, received, connected, rom>>

----------------------------------------------------------------------------
(* Arithmetic and logic on registers (family 8).                           *)

set_vx_to_vy(x, y) ==
    /\ reg' = [reg EXCEPT ![x] = reg[y]]
    /\ UNCHANGED <<mem, disp, index, stack, dt, st, pc>>

binary_or(x, y) ==
    /\ reg' = [reg EXCEPT ![x] = BitOr(reg[x], reg[y])]
    /\ UNCHANGED <<mem, disp, index, stack, dt, st, pc>>

binary_and(x, y) ==
    /\ reg' = [reg EXCEPT ![x] = BitAnd(reg[x], reg[y])]
    /\ UNCHANGED <<mem, disp, index, stack, dt, st, pc>>

binary_xor(x, y) ==
    /\ reg' = [reg EXCEPT ![x] = BitXor(reg[x], reg[y])]
    /\ UNCHANGED <<mem, disp, index, stack, dt, st, pc>>

add_vy_to_vx_NeverCarries(x, y) ==
    /\ reg' = [[reg EXCEPT ![VF] = 0] EXCEPT ![x] = (reg[x] + reg[y]) % 256]
    /\ UNCHANGED <<mem, disp, index, stack, dt, st, pc>>

\* VF is written first and Vx second.
add_vy_to_vx(x, y) ==
    /\ LET temp_res == reg[x] + reg[y] IN
       reg' = IF temp_res > 255
              THEN [[reg EXCEPT ![VF] = 1] EXCEPT ![x] = temp_res % 256]
              ELSE [[reg EXCEPT ![VF] = 0] EXCEPT ![x] = temp_res]
    /\ UNCHANGED <<mem, disp, index, stack, dt, st, pc>>

\* The subtraction shared by sub_vy_from_vx and sub_vx_from_vy: the new
\* registers for a result stored in Vx.
Subtract(x, minuend, subtrahend) ==
    IF minuend < subtrahend
    THEN [[reg EXCEPT ![VF] = 0] EXCEPT ![x] = (256 - (subtrahend - minuend)) % 256]
    ELSE [[reg EXCEPT ![VF] = 1] EXCEPT ![x] = minuend - subtrahend]

sub_vy_from_vx(x, y) ==
    /\ reg' = Subtract(x, reg[x], reg[y])
    /\ UNCHANGED <<mem, disp, index, stack, dt, st, pc>>

sub_vx_from_vy(x, y) ==
    /\ reg' = Subtract(x, reg[y], reg[x])
    /\ UNCHANGED <<mem, disp, index, stack, dt, st, pc>>

\* Vx is written first and VF second.
shift_right(x, y) ==
    /\ reg' = [[reg EXCEPT ![x] = reg[x] \div 2] EXCEPT ![VF] = reg[x] % 2]
    /\ UNCHANGED <<mem, disp, index, stack, dt, st, pc>>

\* As shift_left, but the masked bit is not shifted down to bit 0, as in
\* shift_left of main.rs (lines 692-696).
shift_left_KeepsMask(x, y) ==
    /\ reg' = [[reg EXCEPT ![x] = (reg[x] * 2) % 256]
                    EXCEPT ![VF] = BitAnd(reg[x], 128)]
    /\ UNCHANGED <<mem, disp, index, stack, dt, st, pc>>

shift_left(x, y) ==
    /\ reg' = [[reg EXCEPT ![x] = (reg[x] * 2) % 256]
                    EXCEPT ![VF] = BitAnd(reg[x], 128) \div 128]
    /\ UNCHANGED <<mem, disp, index, stack, dt, st, pc>>

exec_SetVXToVY ==
    /\ Arm("SetVXToVY")
    /\ set_vx_to_vy(X(inst), Y(inst))
    /\ UNCHANGED <<frames, inRange, events>>
    /\ Return("None")

exec_BinaryOr ==
    /\ Arm("BinaryOr")
    /\ binary_or(X(inst), Y(inst))
    /\ UNCHANGED <<frames, inRange, events>>
    /\ Return("None")

exec_BinaryAnd ==
    /\ Arm("BinaryAnd")
    /\ binary_and(X(inst), Y(inst))
    /\ UNCHANGED <<frames, inRange, events>>
    /\ Return("None")

exec_BinaryXor ==
    /\ Arm("BinaryXor")
    /\ binary_xor(X(inst), Y(inst))
    /\ UNCHANGED <<frames, inRange, events>>
    /\ Return("None")

exec_AddVYToVX ==
    /\ Arm("AddVYToVX")
    /\ add_vy_to_vx(X(inst), Y(inst))
    /\ UNCHANGED <<frames, inRange, events>>
    /\ Return("None")

exec_SubVYFromVX ==
    /\ Arm("SubVYFromVX")
    /\ sub_vy_from_vx(X(inst), Y(inst))
    /\ UNCHANGED <<frames, inRange, events>>
    /\ Return("None")

exec_SubVXFromVY ==
    /\ Arm("SubVXFromVY")
    /\ sub_vx_from_vy(X(inst), Y(inst))
    /\ UNCHANGED <<frames, inRange, events>>
    /\ Return("None")

exec_ShiftRight ==
    /\ Arm("ShiftRight")
    /\ shift_right(X(inst), Y(inst))
    /\ UNCHANGED <<frames, inRange, events>>
    /\ Return("None")

exec_ShiftLeft ==
    /\ Arm("ShiftLeft")
    /\ shift_left(X(inst), Y(inst))
    /\ UNCHANGED <<frames, inRange, events>>
    /\ Return("None")

----------------------------------------------------------------------------
(* The keyboard.                                                           *)

\* A terminal event is the character of a key press, or "resize" for an
\* event that is no key press.  None of Option<u8> is NoKey.
NoKey == -1

\* The two matches of a key query: the event to its KeyCode, the KeyCode to
\* the logical key.
Keypress(e) ==
    CASE e = "1" -> 1
      [] e = "2" -> 2
      [] e = "3" -> 3
      [] e = "4" -> 12
      [] e = "q" -> 4
      [] e = "w" -> 5
      [] e = "e" -> 6
      [] e = "r" -> 13
      [] e = "a" -> 7
      [] e = "s" -> 8
      [] e = "d" -> 9
      [] e = "f" -> 15
      [] e = "z" -> 10
      [] e = "x" -> 0
      [] e = "c" -> 11
      [] e = "v" -> 15
      [] OTHER -> NoKey

\* crossterm::event::poll(0) and, when it is true, crossterm::event::read():
\* the logical key the query sees, and the events left in the queue.
Polled == events # << >>
KeySeen == IF Polled THEN Keypress(Head(events)) ELSE NoKey
EventsLeft == IF Polled THEN Tail(events) ELSE events

skip_if_key(x) ==
    /\ events' = EventsLeft
    /\ pc' = IF KeySeen # NoKey /\ KeySeen = reg[x] THEN pc + 2 ELSE pc
    /\ UNCHANGED <<mem, disp, index, stack, dt, st, reg>>

skip_if_not_key_StaysWithoutEvent(x) ==
    /\ events' = EventsLeft
    /\ pc' = IF Polled /\ KeySeen # reg[x] THEN pc + 2 ELSE pc
    /\ UNCHANGED <<mem, disp, index, stack, dt, st, reg>>

skip_if_not_key(x) ==
    /\ events' = EventsLeft
    /\ pc' = IF KeySeen # NoKey /\ KeySeen = reg[x] THEN pc ELSE pc + 2
    /\ UNCHANGED <<mem, disp, index, stack, dt, st, reg>>

get_key_IgnoresKey(x) ==
    /\ events' = EventsLeft
    /\ pc' = pc - 2
    /\ UNCHANGED <<mem, disp, index, stack, dt, st, reg>>

get_key_NoRewind(x) ==
    /\ events' = EventsLeft
    /\ reg' = IF KeySeen # NoKey THEN [reg EXCEPT ![x] = KeySeen] ELSE reg
    /\ UNCHANGED <<mem, disp, index, stack, dt, st, pc>>

get_key(x) ==
    /\ events' = EventsLeft
    /\ IF KeySeen # NoKey
       THEN reg' = [reg EXCEPT ![x] = KeySeen] /\ pc' = pc
       ELSE reg' = reg /\ pc' = pc - 2
    /\ UNCHANGED <<mem, disp, index, stack, dt, st>>

exec_SkipIfKey ==
    /\ Arm("SkipIfKey")
    /\ skip_if_key(X(inst))
    /\ UNCHANGED <<frames, inRange>>
    /\ Return("None")

exec_SkipIfNotKey ==
    /\ Arm("SkipIfNotKey")
    /\ skip_if_not_key(X(inst))
    /\ UNCHANGED <<frames, inRange>>
    /\ Return("None")

exec_GetKey ==
    /\ Arm("GetKey")
    /\ get_key(X(inst))
    /\ UNCHANGED <<frames, inRange>>
    /\ Return("None")

\* The user causes the next event and the terminal queues it.
KeyPress ==
    /\ typing # << >>
    /\ events' = Append(events, Head(typing))
    /\ typing' = Tail(typing)
    /\ UNCHANGED <<mem, disp, index, stack, dt, st, reg, pc, inst, opcode, msg,
                   at, status, elapsed, ticks, sent, received, connected, rom, hist, frames, inRange>>

----------------------------------------------------------------------------
(* The delay timer and the sound timer.                                    *)

set_vx_to_dt(x) ==
    /\ reg' = [reg EXCEPT ![x] = dt]
    /\ UNCHANGED <<mem, disp, index, stack, dt, st, pc>>

set_dt_to_vx(x) ==
    /\ dt' = reg[x]
    /\ UNCHANGED <<mem, disp, index, stack, st, reg, pc>>

set_st_to_vx(x) ==
    /\ st' = reg[x]
    /\ UNCHANGED <<mem, disp, index, stack, dt, reg, pc>>

exec_SetVXToDT ==
    /\ Arm("SetVXToDT")
    /\ set_vx_to_dt(X(inst))
    /\ UNCHANGED <<frames, inRange, events>>
    /\ Return("None")

exec_SetDTToVX ==
    /\ Arm("SetDTToVX")
    /\ set_dt_to_vx(X(inst))
    /\ UNCHANGED <<frames, inRange, events>>
    /\ Return("None")

exec_SetSTToVX ==
    /\ Arm("SetSTToVX")
    /\ set_st_to_vx(X(inst))
    /\ UNCHANGED <<frames, inRange, events>>
    /\ Return("None")

----------------------------------------------------------------------------
(* Memory at the index register.                                           *)

\* The arm returns m, or panics when why is not empty.
ReturnOrPanic(m, why) ==
    IF why = ""
    THEN Return(m)
    ELSE /\ status' = why
         /\ Remember
         /\ UNCHANGED <<inst, opcode, msg, at, typing, elapsed, ticks, sent, received, connected, rom>>

\* binary_coded_decimal_conversion: hundreds, tens and ones as computed.
BcdDigits(n) == << n \div 100, n \div 10, n % 10 >>

BcdResult(x) == StoreBytes(mem, index, BcdDigits(reg[x]), 1)

binary_coded_decimal_conversion(x) ==
    /\ mem' = BcdResult(x).mem
    /\ UNCHANGED <<disp, index, stack, dt, st, reg, pc>>

exec_BinaryCodedDecimalConversion ==
    /\ Arm("BinaryCodedDecimalConversion")
    /\ binary_coded_decimal_conversion(X(inst))
    /\ UNCHANGED <<frames, inRange, events>>
    /\ ReturnOrPanic("None", BcdResult(X(inst)).panic)

\* save_register_to_memory: for i in 0..=x, mem[index + i] = reg[i].
SaveResult_Exclusive(x) ==
    StoreBytes(mem, index, [i \in 1..x |-> reg[i - 1]], 1)

SaveResult(x) ==
    StoreBytes(mem, index, [i \in 1..(x + 1) |-> reg[i - 1]], 1)

save_register_to_memory(x) ==
    /\ mem' = SaveResult(x).mem
    /\ UNCHANGED <<disp, index, stack, dt, st, reg, pc>>

exec_SaveRegisterToMemory ==
    /\ Arm("SaveRegisterToMemory")
    /\ save_register_to_memory(X(inst))
    /\ UNCHANGED <<frames, inRange, events>>
    /\ ReturnOrPanic("None", SaveResult(X(inst)).panic)

\* load_register_from_memory: for i in 0..=x, reg[i] = mem[index + i], from
\* register i on.  A read at 4096 or above panics and ends the loop.
RECURSIVE LoadRegs(_, _, _)
LoadRegs(r, i, x) ==
    IF i > x THEN [reg |-> r, panic |-> ""]
    ELSE IF index + i >= MemSize
    THEN [reg |-> r, panic |-> "panic: index out of bounds (mem)"]
    ELSE LoadRegs([r EXCEPT ![i] = mem[index + i]], i + 1, x)

LoadResult(x) == LoadRegs(reg, 0, x)

load_register_from_memory(x) ==
    /\ reg' = LoadResult(x).reg
    /\ UNCHANGED <<mem, disp, index, stack, dt, st, pc>>

exec_LoadRegisterFromMemory ==
    /\ Arm("LoadRegisterFromMemory")
    /\ load_register_from_memory(X(inst))
    /\ UNCHANGED <<frames, inRange, events>>
    /\ ReturnOrPanic("None", LoadResult(X(inst)).panic)

----------------------------------------------------------------------------
(* Skips on register values, and additions to a register and to I.         *)

skip_equal(x, nn) ==
    /\ pc' = IF reg[x] = nn % 256 THEN pc + 2 ELSE pc
    /\ UNCHANGED <<mem, disp, index, stack, dt, st, reg>>

\* As skip_not_equal, but with the comparison of skip_equal.
skip_not_equal_AsEqual(x, nn) ==
    /\ pc' = IF reg[x] = nn % 256 THEN pc + 2 ELSE pc
    /\ UNCHANGED <<mem, disp, index, stack, dt, st, reg>>

skip_not_equal(x, nn) ==
    /\ pc' = IF reg[x] # nn % 256 THEN pc + 2 ELSE pc
    /\ UNCHANGED <<mem, disp, index, stack, dt, st, reg>>

skip_vx_equal_vy(x, y) ==
    /\ pc' = IF reg[x] = reg[y] THEN pc + 2 ELSE pc
    /\ UNCHANGED <<mem, disp, index, stack, dt, st, reg>>

skip_vx_not_equal_vy(x, y) ==
    /\ pc' = IF reg[x] # reg[y] THEN pc + 2 ELSE pc
    /\ UNCHANGED <<mem, disp, index, stack, dt, st, reg>>

\* As add_vx, but with the carry flag of add_vy_to_vx.
add_vx_SetsCarry(x, nn) ==
    /\ reg' = [[reg EXCEPT ![VF] = IF reg[x] + nn > ByteMax THEN 1 ELSE 0]
                    EXCEPT ![x] = (reg[x] + nn) % 256]
    /\ UNCHANGED <<mem, disp, index, stack, dt, st, pc>>

add_vx(x, nn) ==
    /\ reg' = [reg EXCEPT ![x] = (reg[x] + nn) % 256]
    /\ UNCHANGED <<mem, disp, index, stack, dt, st, pc>>

\* `self.index += Vx` on a u16: a sum above 0xFFFF panics in a build with
\* overflow checks and wraps in a build without.
WordMax == 65535
OverflowChecks(sum) == IF sum > WordMax THEN BOOLEAN ELSE {FALSE}

\* As add_i, but VF is reset when the new I is below 0x1000.
add_i_ClearsFlag(x) ==
    /\ index' = (index + reg[x]) % (WordMax + 1)
    /\ reg' = [reg EXCEPT ![VF] = IF (index + reg[x]) % (WordMax + 1) >= MemSize
                                  THEN 1 ELSE 0]
    /\ UNCHANGED <<mem, disp, stack, dt, st, pc>>

add_i(x) ==
    /\ index' = (index + reg[x]) % (WordMax + 1)
    /\ reg' = IF (index + reg[x]) % (WordMax + 1) >= MemSize
              THEN [reg EXCEPT ![VF] = 1]
              ELSE reg
    /\ UNCHANGED <<mem, disp, stack, dt, st, pc>>

\* As font_character, but without the base of the font table.
font_character_NoBase(x) ==
    /\ index' = reg[x] * 5
    /\ UNCHANGED <<mem, disp, stack, dt, st, reg, pc>>

font_character(x) ==
    /\ index' = reg[x] * 5 + FontBase
    /\ UNCHANGED <<mem, disp, stack, dt, st, reg, pc>>

exec_SkipEqual ==
    /\ Arm("SkipEqual")
    /\ skip_equal(X(inst), KK(inst))
    /\ UNCHANGED <<frames, inRange, events>>
    /\ Return("None")

exec_SkipNotEqual ==
    /\ Arm("SkipNotEqual")
    /\ skip_not_equal(X(inst), KK(inst))
    /\ UNCHANGED <<frames, inRange, events>>
    /\ Return("None")

exec_SkipVXEqualVY ==
    /\ Arm("SkipVXEqualVY")
    /\ skip_vx_equal_vy(X(inst), Y(inst))
    /\ UNCHANGED <<frames, inRange, events>>
    /\ Return("None")

exec_SkipVXNotEqualVY ==
    /\ Arm("SkipVXNotEqualVY")
    /\ skip_vx_not_equal_vy(X(inst), Y(inst))
    /\ UNCHANGED <<frames, inRange, events>>
    /\ Return("None")

exec_AddVX ==
    /\ Arm("AddVX")
    /\ add_vx(X(inst), KK(inst))
    /\ UNCHANGED <<frames, inRange, events>>
    /\ Return("None")

exec_AddI ==
    /\ Arm("AddI")
    /\ UNCHANGED <<frames, inRange, events>>
    /\ \E checked \in OverflowChecks(index + reg[X(inst)]) :
            IF checked
            THEN Panic("panic: attempt to add with overflow")
            ELSE add_i(X(inst)) /\ Return("None")

exec_FontCharacter ==
    /\ Arm("FontCharacter")
    /\ font_character(X(inst))
    /\ UNCHANGED <<frames, inRange, events>>
    /\ Return("None")

----------------------------------------------------------------------------
(* Programs that draw.                                                     *)

\* V0 and V1 are set, a sprite is drawn at (V0, V1) once or twice, a second
\* sprite is drawn at the same place and the screen is cleared.  The sprite
\* table follows the program and its halt words.
SpriteTable == << 128, 192, 1 >>
DrawXs == {0, 60, 127}
DrawYs == {0, 30, 255}
DrawNs == (0..MaxSpriteRows) \cup {15}

DrawWords(vx, vy, a1, n1, twice, a2, n2) ==
    << I_LD(0, vx), I_LD(1, vy), I_LDI(a1), I_DRW(0, 1, n1) >>
    \o (IF twice THEN << I_DRW(0, 1, n1) >> ELSE << >>)
    \o << I_LDI(a2), I_DRW(0, 1, n2), I_CLS >>

\* The address of the sprite table, after the program and its two halt words.
SpriteBase(twice) == WordAddr((IF twice THEN 8 ELSE 7) + 3)

DrawRom(vx, vy, o1, n1, twice, o2, n2) ==
    WordsToBytes(Halted(DrawWords(vx, vy, SpriteBase(twice) + o1, n1, twice,
                                  SpriteBase(twice) + o2, n2)))
    \o SpriteTable

InitDraw ==
    \E vx \in DrawXs, vy \in DrawYs, twice \in BOOLEAN :
    \E o1 \in 0..(Len(SpriteTable) - 1), o2 \in 0..(Len(SpriteTable) - 1) :
    \E n1 \in DrawNs, n2 \in DrawNs :
        InitWith(DrawRom(vx, vy, o1, n1, twice, o2, n2))

NextDraw ==
    \/ fetch_next
    \/ decode
    \/ timer_check
    \/ exec_Jump
    \/ exec_SetVX
    \/ exec_SetI
    \/ exec_Draw
    \/ exec_Clear

SpecDraw == InitDraw /\ [][NextDraw]_vars

----------------------------------------------------------------------------
(* Programs that compute.                                                  *)

\* Vx and Vy are set and one instruction of family 8 is executed.
AluBytes == {0, 1, 2, 4, 127, 128, 255}
AluRegs == {0, 1, VF}
AluOps == (0..7) \cup {14}

AluRom(x, a, y, b, n) ==
    WordsToBytes(Halted(<< I_LD(x, a), I_LD(y, b), I_ALU(x, y, n) >>))

InitAlu ==
    \E x \in AluRegs, y \in AluRegs, a \in AluBytes, b \in AluBytes, n \in AluOps :
        InitWith(AluRom(x, a, y, b, n))

NextAlu ==
    \/ fetch_next
    \/ decode
    \/ timer_check
    \/ exec_Jump
    \/ exec_SetVX
    \/ exec_SetVXToVY
    \/ exec_BinaryOr
    \/ exec_BinaryAnd
    \/ exec_BinaryXor
    \/ exec_AddVYToVX
    \/ exec_SubVYFromVX
    \/ exec_SubVXFromVY
    \/ exec_ShiftRight
    \/ exec_ShiftLeft

SpecAlu == InitAlu /\ [][NextAlu]_vars

----------------------------------------------------------------------------
(* Programs that use memory at the index register.                         *)

\* Addresses for I: in the font, after the program, and the last three bytes
\* of memory.
MemAddrs == {FontBase, 768, MemSize - 3, MemSize - 2, MemSize - 1}
RegCounts == {0, 1, 2, 15}
MemV0s == {0, 200}
MemOps == { I_SAVE(x) : x \in RegCounts } \cup { I_LOAD(x) : x \in RegCounts }

\* V0 is set, I is set and V0 is converted to decimal.
BcdRom(a, addr) == WordsToBytes(Halted(<< I_LD(0, a), I_LDI(addr), I_BCD(0) >>))

\* V0 and V1 are set, I is set and two instructions store or load registers.
RegsRom(a, addr, op1, op2) ==
    WordsToBytes(Halted(<< I_LD(0, a), I_LD(1, 7), I_LDI(addr), op1, op2 >>))

\* I is set and n rows are drawn at (0, 0).
SpriteRom(addr, n) == WordsToBytes(Halted(<< I_LDI(addr), I_DRW(0, 1, n) >>))

InitMem ==
    \/ \E a \in 0..ByteMax, addr \in MemAddrs : InitWith(BcdRom(a, addr))
    \/ \E a \in MemV0s, addr \in MemAddrs, op1 \in MemOps, op2 \in MemOps :
            InitWith(RegsRom(a, addr, op1, op2))
    \/ \E addr \in MemAddrs, n \in 1..MaxSpriteRows : InitWith(SpriteRom(addr, n))

NextMem ==
    \/ fetch_next
    \/ decode
    \/ timer_check
    \/ exec_Jump
    \/ exec_SetVX
    \/ exec_SetI
    \/ exec_Draw
    \/ exec_BinaryCodedDecimalConversion
    \/ exec_SaveRegisterToMemory
    \/ exec_LoadRegisterFromMemory

SpecMem == InitMem /\ [][NextMem]_vars

----------------------------------------------------------------------------
(* Programs that query the keyboard.                                       *)

\* The sequences of at most n elements of S.
Scripts(S, n) == UNION { [1..k -> S] : k \in 0..n }

\* V0 is set and two key queries follow; the user causes at most MaxTyped
\* terminal events, at any time.
TerminalEvents == {"1", "v", "resize"}
KeyV0s == {1, 15}
KeyOps == {I_SKP(0), I_SKNP(0), I_KEY(1)}

KeyRom(v, op1, op2) == WordsToBytes(Halted(<< I_LD(0, v), op1, op2 >>))

InitKey ==
    \E v \in KeyV0s, op1 \in KeyOps, op2 \in KeyOps :
    \E keys \in Scripts(TerminalEvents, MaxTyped) :
        InitWithInput(KeyRom(v, op1, op2), keys)

NextKey ==
    \/ fetch_next
    \/ decode
    \/ timer_check
    \/ exec_Jump
    \/ exec_SetVX
    \/ exec_SkipIfKey
    \/ exec_SkipIfNotKey
    \/ exec_GetKey
    \/ KeyPress

SpecKey == InitKey /\ [][NextKey]_vars

\* Programs that set the timers and read the delay timer back, while time
\* passes: V0 = a; V1 = b; dt = V0; st = V1; V2 = dt.
TimerBytes == {0, 1, 2, ByteMax}

TimerRom(a, b) ==
    WordsToBytes(Halted(<< I_LD(0, a), I_LD(1, b), I_LDDT(0), I_LDST(1),
                           I_LDVDT(2) >>))

InitTimer == \E a \in TimerBytes, b \in TimerBytes : InitWith(TimerRom(a, b))

NextTimer ==
    \/ fetch_next
    \/ decode
    \/ timer_check
    \/ Expire
    \/ exec_Jump
    \/ exec_SetVX
    \/ exec_SetVXToDT
    \/ exec_SetDTToVX
    \/ exec_SetSTToVX

SpecTimer == InitTimer /\ [][NextTimer]_vars

\* ROM files of every length around the room above START: a jump to START
\* followed by bytes that differ from their neighbours, cut to n bytes.
RomMax == MemSize - START
RomLens == {0, 1, 2, 3, RomMax - 1, RomMax, RomMax + 1, RomMax + 2}

RomFile(n) ==
    [i \in 1..n |-> IF i = 1 THEN 18 ELSE IF i = 2 THEN 0 ELSE 1 + (i % ByteMax)]

InitLoad == \E n \in RomLens : InitNew(RomFile(n))

NextLoad ==
    \/ call_load_font_set
    \/ call_load_rom
    \/ call_run
    \/ fetch_next
    \/ decode
    \/ timer_check
    \/ exec_None
    \/ exec_Jump

SpecLoad == InitLoad /\ [][NextLoad]_vars

\* Programs that look up a glyph: Vx = d; I = 0x50; optionally V0 is stored
\* at I, over the first byte of the font table; then FontCharacter(x).
FontRegs == {0, 5, VF}
FontDigits == 0..15 \cup {16, ByteMax}

FontRom(x, d, clobber) ==
    WordsToBytes(Halted(<< I_LD(x, d), I_LDI(FontBase) >>
                        \o (IF clobber THEN << I_SAVE(0) >> ELSE << >>)
                        \o << I_FONT(x) >>))

InitFont ==
    \E x \in FontRegs, d \in FontDigits, clobber \in BOOLEAN :
        InitWith(FontRom(x, d, clobber))

NextFont ==
    \/ fetch_next
    \/ decode
    \/ timer_check
    \/ exec_Jump
    \/ exec_SetVX
    \/ exec_SetI
    \/ exec_SaveRegisterToMemory
    \/ exec_FontCharacter

SpecFont == InitFont /\ [][NextFont]_vars

\* Programs that add to I: VF = f; Vx = a; I = base; I += Vx, twice.  And a
\* program that adds 128 to I again and again, from 0xFFF past 0xFFFF.
AddIRegs == {0, VF}
AddIBytes == {0, 1, ByteMax}
AddIFlags == {0, 1, 7}
AddIBases == {0, MemSize - ByteMax - 1, MemSize - 2}

AddIRom(x, a, f, base) ==
    WordsToBytes(Halted(<< I_LD(VF, f), I_LD(x, a), I_LDI(base), I_ADDI(x),
                           I_ADDI(x) >>))

AddILoop ==
    WordsToBytes(<< I_LD(0, 128), I_LDI(MemSize - 1), I_ADDI(0),
                    I_JP(WordAddr(3)) >>)

InitAddI ==
    \/ \E x \in AddIRegs, a \in AddIBytes, f \in AddIFlags, base \in AddIBases :
            InitWith(AddIRom(x, a, f, base))
    \/ InitWith(AddILoop)

NextAddI ==
    \/ fetch_next
    \/ decode
    \/ timer_check
    \/ exec_Jump
    \/ exec_SetVX
    \/ exec_SetI
    \/ exec_AddI

SpecAddI == InitAddI /\ [][NextAddI]_vars

\* Programs that execute the same word twice in a row, in different states of
\* the Cpu: V0 = a; V1 = b; w; w.
RepeatV0s == {0, 4}
RepeatV1s == {1, ByteMax}
RepeatedWords ==
    { I_CLS, 291, I_SE(0, 4), I_ADD(0, 1), I_ALU(0, 1, 4), I_LDI(837),
      I_LDDT(0), I_LDVDT(1), I_ADDI(1), I_FONT(0) }

RepeatRom(a, b, w) == WordsToBytes(Halted(<< I_LD(0, a), I_LD(1, b), w, w >>))

InitRepeat ==
    \E a \in RepeatV0s, b \in RepeatV1s, w \in RepeatedWords :
        InitWith(RepeatRom(a, b, w))

NextRepeat ==
    \/ fetch_next
    \/ decode
    \/ timer_check
    \/ Expire
    \/ exec_None
    \/ exec_Clear
    \/ exec_Jump
    \/ exec_SetVX
    \/ exec_SetI
    \/ exec_SkipEqual
    \/ exec_AddVX
    \/ exec_AddVYToVX
    \/ exec_SetVXToDT
    \/ exec_SetDTToVX
    \/ exec_AddI
    \/ exec_FontCharacter

SpecRepeat == InitRepeat /\ [][NextRepeat]_vars

\* The programs that draw from the left edge of the display, from the call
\* of run on.
InitSignal ==
    \E vy \in DrawYs, twice \in BOOLEAN :
    \E o1 \in 0..(Len(SpriteTable) - 1), o2 \in 0..(Len(SpriteTable) - 1) :
    \E n1 \in DrawNs, n2 \in DrawNs :
        InitLoaded(DrawRom(0, vy, o1, n1, twice, o2, n2))

NextSignal ==
    \/ call_run
    \/ fetch_next
    \/ decode
    \/ timer_check
    \/ exec_Jump
    \/ exec_SetVX
    \/ exec_SetI
    \/ exec_Clear
    \/ exec_Draw

SpecSignal == InitSignal /\ [][NextSignal]_vars

\* V1 is set and a word of family 0 is executed: every word 0NNN.
FamilyZeroWords == 0..4095
NoneV1s == {0, ByteMax}

InitNone ==
    \E w \in FamilyZeroWords, v \in NoneV1s :
        InitWith(WordsToBytes(Halted(<< I_LD(1, v), w >>)))

NextNone ==
    \/ fetch_next
    \/ decode
    \/ timer_check
    \/ exec_None
    \/ exec_Jump
    \/ exec_ReturnSub
    \/ exec_SetVX
    \/ exec_Clear

SpecNone == InitNone /\ [][NextNone]_vars

\* V0 is set and a jump, plain or with offset, is taken to the halt word, to
\* the last word of memory or to its last byte.
JumpV0s == {0, 1, ByteMax}
JumpTargets == {WordAddr(3), MemSize - 2, MemSize - 1}

InitJump ==
    \E v \in JumpV0s, t \in JumpTargets, offset \in BOOLEAN :
        InitWith(WordsToBytes(Halted(
            << I_LD(0, v), IF offset THEN I_JPV0(t) ELSE I_JP(t) >>)))

NextJump ==
    \/ fetch_next
    \/ decode
    \/ timer_check
    \/ exec_None
    \/ exec_Jump
    \/ exec_JumpWithOffset
    \/ exec_SetVX

SpecJump == InitJump /\ [][NextJump]_vars

\* Terminal::draw_screen, its own error: some element of the array it is
\* given is neither 0 nor 1.
PixelError(d) ==
    \E c \in 0..(DispWidth - 1), r \in 0..(DispHeight - 1) : d[c][r] \notin {0, 1}

\* V0 is set and two key queries follow; the user causes exactly one terminal
\* event, at any time.
InitOneKey ==
    \E v \in KeyV0s, op1 \in KeyOps, op2 \in KeyOps :
    \E e \in TerminalEvents :
        InitWithInput(KeyRom(v, op1, op2), << e >>)

SpecOneKey == InitOneKey /\ [][NextKey]_vars

\* The holder of the Receiver returned by Chip8::new takes the oldest message
\* it has not taken yet.
Receive ==
    /\ connected
    /\ received < Len(sent)
    /\ received' = received + 1
    /\ UNCHANGED <<mem, disp, index, stack, dt, st, reg, pc, inst, opcode, msg,
                   at, status, events, typing, elapsed, ticks, sent, connected,
                   rom, hist, frames, inRange>>

\* The holder of the Receiver drops it.
Disconnect ==
    /\ connected
    /\ connected' = FALSE
    /\ UNCHANGED <<mem, disp, index, stack, dt, st, reg, pc, inst, opcode, msg,
                   at, status, events, typing, elapsed, ticks, sent, received,
                   rom, hist, frames, inRange>>

\* Programs that draw one row at the top left corner, with a consumer that
\* receives at any pace or hangs up.
InitChannel ==
    \E twice \in BOOLEAN :
    \E o1 \in 0..1, o2 \in 0..1 :
        InitLoaded(DrawRom(0, 0, o1, 1, twice, o2, 1))

EngineChannel ==
    \/ call_run
    \/ fetch_next
    \/ decode
    \/ timer_check
    \/ exec_Jump
    \/ exec_SetVX
    \/ exec_SetI
    \/ exec_Clear
    \/ exec_Draw

NextChannel ==
    \/ EngineChannel
    \/ Receive
    \/ Disconnect

SpecChannel == InitChannel /\ [][NextChannel]_vars

\* A program that waits for a key twice.  The loop of Chip8::run never blocks
\* (poll does not wait), so its steps are taken again and again; when the
\* keys are pressed is up to the user.
\* The user presses 'v', a key of the keypad, or 'p', which is none.
TypedKeys == {"v", "p"}

InitGetKey ==
    \E keys \in Scripts(TypedKeys, MaxTyped) :
        InitWithInput(KeyRom(0, I_KEY(1), I_KEY(1)), keys)

RunLoopGetKey ==
    \/ fetch_next
    \/ decode
    \/ timer_check
    \/ exec_Jump
    \/ exec_SetVX
    \/ exec_GetKey

NextGetKey ==
    \/ fetch_next
    \/ decode
    \/ timer_check
    \/ exec_Jump
    \/ exec_SetVX
    \/ exec_GetKey
    \/ KeyPress

SpecGetKey == InitGetKey /\ [][NextGetKey]_vars /\ WF_vars(RunLoopGetKey)

----------------------------------------------------------------------------
(* Decoding every instruction word.                                        *)

\* Cpu::new, then execute_instruction(w) is called, as the unit tests of cpu.rs
\* call it, for each of the 65536 words w.
InitCall(w) ==
    /\ events = << >>
    /\ mem = ZeroMem
    /\ inst = w
    /\ at = "decode"
    /\ disp = ZeroDisp
    /\ index = 0
    /\ stack = ZeroStack
    /\ dt = 0
    /\ st = 0
    /\ reg = ZeroReg
    /\ pc = START
    /\ opcode = "None"
    /\ msg = "None"
    /\ status = "running"
    /\ typing = << >>
    /\ elapsed = FALSE
    /\ ticks = 0
    /\ rom = << >>
    /\ sent = << >>
    /\ received = 0
    /\ connected = TRUE
    /\ hist = << >>
    /\ frames = << >>
    /\ inRange = TRUE

InitDecode == \E w \in 0..65535 : InitCall(w)

NextDecode == decode

SpecDecode == InitDecode /\ [][NextDecode]_vars

----------------------------------------------------------------------------
(* Unit tests: the additions.                                              *)

\* A unit test of cpu.rs: Cpu::new(), the registers are assigned (cpu.reg[0] =
\* 128; cpu.reg[1] = 128; ...) and execute_instruction(w) is called.
InitTest(r, w) ==
    /\ events = << >>
    /\ mem = ZeroMem
    /\ inst = w
    /\ at = "decode"
    /\ disp = ZeroDisp
    /\ index = 0
    /\ stack = ZeroStack
    /\ dt = 0
    /\ st = 0
    /\ reg = r
    /\ pc = START
    /\ opcode = "None"
    /\ msg = "None"
    /\ status = "running"
    /\ typing = << >>
    /\ elapsed = FALSE
    /\ ticks = 0
    /\ rom = << >>
    /\ sent = << >>
    /\ received = 0
    /\ connected = TRUE
    /\ hist = << >>
    /\ frames = << >>
    /\ inRange = TRUE

\* test_add_with_carry for every pair of bytes in V0 and V1, and for other
\* pairs of registers with the bytes of AluBytes.
AddXs == {0, 1, 14, VF}
AddYs == {0, 1, VF}

InitAdd ==
    \/ \E a \in 0..ByteMax, b \in 0..ByteMax :
            InitTest([[ZeroReg EXCEPT ![0] = a] EXCEPT ![1] = b], I_ALU(0, 1, 4))
    \/ \E x \in AddXs, y \in AddYs, a \in AluBytes, b \in AluBytes :
            InitTest([[ZeroReg EXCEPT ![x] = a] EXCEPT ![y] = b], I_ALU(x, y, 4))

\* test_skip_equal, test_skip_not_equal, test_skip_vx_equal_vy and
\* test_skip_vx_not_equal_vy for every byte in Vx against the bytes of
\* SkipBytes as kk or in Vy, through several registers.
SkipBytes == {0, 1, 127, 128, ByteMax}
SkipRegs == {0, 1, VF}

InitSkip ==
    \/ \E x \in SkipRegs, a \in 0..ByteMax, kk \in SkipBytes :
       \E w \in {I_SE(x, kk), I_SNE(x, kk)} :
            InitTest([ZeroReg EXCEPT ![x] = a], w)
    \/ \E x \in SkipRegs, y \in SkipRegs, a \in 0..ByteMax, b \in SkipBytes :
       \E w \in {I_SEV(x, y), I_SNEV(x, y)} :
            InitTest([[ZeroReg EXCEPT ![x] = a] EXCEPT ![y] = b], w)

NextSkip ==
    \/ decode
    \/ exec_SkipEqual
    \/ exec_SkipNotEqual
    \/ exec_SkipVXEqualVY
    \/ exec_SkipVXNotEqualVY

SpecSkip == InitSkip /\ [][NextSkip]_vars

\* test_add_without_carry for every byte in V1 and every kk, and through other
\* registers, with VF set, for the bytes of AluBytes.
AddFlags == {1, ByteMax}

InitAddVX ==
    \/ \E a \in 0..ByteMax, kk \in 0..ByteMax :
            InitTest([ZeroReg EXCEPT ![1] = a], I_ADD(1, kk))
    \/ \E x \in AddXs, a \in AluBytes, kk \in AluBytes, f \in AddFlags :
            InitTest([[ZeroReg EXCEPT ![VF] = f] EXCEPT ![x] = a], I_ADD(x, kk))

NextAddVX ==
    \/ decode
    \/ exec_AddVX

SpecAddVX == InitAddVX /\ [][NextAddVX]_vars

\* test_shift_right and test_shift_left for every byte in Vx, with 0 or 255 in
\* Vy, through several registers.
ShiftVys == {0, ByteMax}

InitShift ==
    \E x \in AluRegs, y \in AluRegs, a \in 0..ByteMax, b \in ShiftVys :
    \E w \in {I_ALU(x, y, 6), I_ALU(x, y, 14)} :
        InitTest([[ZeroReg EXCEPT ![y] = b] EXCEPT ![x] = a], w)

NextShift ==
    \/ decode
    \/ exec_ShiftRight
    \/ exec_ShiftLeft

SpecShift == InitShift /\ [][NextShift]_vars

NextAdd ==
    \/ decode
    \/ exec_AddVYToVX

SpecAdd == InitAdd /\ [][NextAdd]_vars

----------------------------------------------------------------------------
(* The interpreter on every program above.                                 *)

Init == InitStack \/ InitDraw \/ InitAlu \/ InitMem \/ InitKey \/ InitTimer

Next ==
    \/ fetch_next
    \/ decode
    \/ timer_check
    \/ exec_None
    \/ exec_Error
    \/ exec_Clear
    \/ exec_Jump
    \/ exec_ReturnSub
    \/ exec_GotoSub
    \/ exec_SetVX
    \/ exec_SetI
    \/ exec_Draw
    \/ exec_SetVXToVY
    \/ exec_BinaryOr
    \/ exec_BinaryAnd
    \/ exec_BinaryXor
    \/ exec_AddVYToVX
    \/ exec_SubVYFromVX
    \/ exec_SubVXFromVY
    \/ exec_ShiftRight
    \/ exec_ShiftLeft
    \/ exec_SkipIfKey
    \/ exec_SkipIfNotKey
    \/ exec_GetKey
    \/ exec_SetVXToDT
    \/ exec_SetDTToVX
    \/ exec_SetSTToVX
    \/ exec_BinaryCodedDecimalConversion
    \/ exec_SaveRegisterToMemory
    \/ exec_LoadRegisterFromMemory
    \/ KeyPress
    \/ Expire

Spec == Init /\ [][Next]_vars

----------------------------------------------------------------------------
(* What the last instruction did.                                          *)

\* An instruction has just completed: hist[1] is the Cpu it started from.
Done == status = "running" /\ at = "timers" /\ Len(hist) >= 1
Completed(o) == Done /\ hist[1].opcode = o

\* The call stack that holds the return addresses fs in call order.
AsStack(fs) == [i \in 0..(StackSize - 1) |-> IF i < Len(fs) THEN fs[i + 1] ELSE 0]

\* C1: while the call depth stays within 0..16, every ReturnSub sets pc to the
\* return address of the most recent GotoSub that has not been returned from.
C1_ReturnIsLastInFirstOut ==
    (Completed("ReturnSub") /\ hist[1].inRange /\ Len(hist[1].frames) >= 1)
        => pc = hist[1].frames[Len(hist[1].frames)]

\* C2: a GotoSub on a stack that holds fewer than 16 nested return addresses
\* adds its return address and keeps the others; a 17th nested GotoSub fails
\* with StackOverflow and leaves the 16 stored return addresses unchanged.
C2_SeventeenthCallOverflows ==
    (Completed("GotoSub") /\ hist[1].inRange
        /\ hist[1].stack = AsStack(hist[1].frames))
        => IF Len(hist[1].frames) < StackSize
           THEN /\ stack = AsStack(Append(hist[1].frames, hist[1].pc))
                /\ pc = NNN(hist[1].inst)
           ELSE /\ msg = "StackOverflow"
                /\ stack = hist[1].stack

\* C3: a ReturnSub executed with no active frame fails with StackUnderflow,
\* an explicit error result, and is not a silent no-op.
C3_ReturnOnEmptyStackUnderflows ==
    (Completed("ReturnSub") /\ hist[1].frames = << >>
        /\ hist[1].stack = ZeroStack)
        => msg = "StackUnderflow"

\* C4: after Clear every pixel of the framebuffer is 0 and the signal returned
\* is ClearScreen.
C4_ClearZeroesFramebuffer ==
    Completed("Clear") => (disp = ZeroDisp /\ msg = "ClearScreen")

\* A pixel was switched from 1 to 0 by the last instruction.
PixelErased ==
    \E c \in 0..(DispWidth - 1), r \in 0..(DispHeight - 1) :
        hist[1].disp[c][r] = 1 /\ disp[c][r] = 0

\* C5: after Draw, VF is 1 if at least one pixel was switched from 1 to 0
\* during that draw and 0 otherwise.
C5_DrawFlagIsCollision ==
    Completed("Draw") => reg[VF] = (IF PixelErased THEN 1 ELSE 0)

\* The column and row a draw that started from h begins at.
DrawCol(h) == h.reg[X(h.inst)] % DispWidth
DrawRowOf(h) == h.reg[Y(h.inst)] % DispHeight

\* The position (0 = leftmost) of the only set bit of byte b, or -1 when b has
\* no or several set bits.
OnlyBit(b) ==
    IF \E k \in 0..7 : b = 2 ^ (7 - k)
    THEN CHOOSE k \in 0..7 : b = 2 ^ (7 - k)
    ELSE -1

\* h is a draw of one sprite row with one set bit that lands on the screen.
SinglePixelDraw(h) ==
    /\ h.opcode = "Draw"
    /\ N(h.inst) = 1
    /\ h.index < MemSize
    /\ OnlyBit(h.mem[h.index]) >= 0
    /\ DrawCol(h) + OnlyBit(h.mem[h.index]) <= DispWidth - 1

PixelCol(h) == DrawCol(h) + OnlyBit(h.mem[h.index])

\* The last two instructions drew the same single-pixel sprite at the same
\* coordinate, onto a pixel that was off.
SamePixelDrawnTwice ==
    /\ Completed("Draw")
    /\ Len(hist) >= 2
    /\ SinglePixelDraw(hist[1])
    /\ SinglePixelDraw(hist[2])
    /\ hist[1].index = hist[2].index
    /\ hist[1].mem[hist[1].index] = hist[2].mem[hist[2].index]
    /\ DrawCol(hist[1]) = DrawCol(hist[2])
    /\ DrawRowOf(hist[1]) = DrawRowOf(hist[2])
    /\ hist[2].disp[PixelCol(hist[2])][DrawRowOf(hist[2])] = 0

\* C6: the same single-pixel sprite drawn twice at the same coordinate turns
\* the pixel on with VF = 0 and then off again with VF = 1, and the framebuffer
\* is then what it was before the first draw.
C6_DrawTwiceRestores ==
    SamePixelDrawnTwice =>
        /\ hist[1].disp[PixelCol(hist[2])][DrawRowOf(hist[2])] = 1
        /\ hist[1].reg[VF] = 0
        /\ disp[PixelCol(hist[2])][DrawRowOf(hist[2])] = 0
        /\ reg[VF] = 1
        /\ disp = hist[2].disp

C6_Witness == SamePixelDrawnTwice

\* C7: Draw never indexes the framebuffer outside 64 x 32, completes, and
\* changes pixels only in the window of n rows and 8 columns that starts at
\* column Vx mod 64 and row Vy mod 32, without wrapping.
C7_DrawStaysInsideFramebuffer ==
    /\ status # "panic: index out of bounds (disp)"
    /\ Completed("Draw") =>
         \A c \in 0..(DispWidth - 1), r \in 0..(DispHeight - 1) :
            disp[c][r] # hist[1].disp[c][r] =>
                /\ c >= DrawCol(hist[1]) /\ c <= DrawCol(hist[1]) + 7
                /\ r >= DrawRowOf(hist[1])
                /\ r < DrawRowOf(hist[1]) + N(hist[1].inst)

\* C8: the word 8xy5 with x other than 0xF sets Vx to (Vx - Vy) mod 256 and VF
\* to 1 if Vx >= Vy and to 0 otherwise, from the values before the instruction.
C8_Word8xy5SubtractsVyFromVx ==
    (Done /\ OP(hist[1].inst) = 8 /\ N(hist[1].inst) = 5 /\ X(hist[1].inst) # VF)
        => LET vx == hist[1].reg[X(hist[1].inst)]
               vy == hist[1].reg[Y(hist[1].inst)]
           IN  /\ reg[X(hist[1].inst)] = (vx - vy) % 256
               /\ reg[VF] = (IF vx >= vy THEN 1 ELSE 0)

\* The decoding table of the specification, in the names of the Opcode enum;
\* "unspecified" where the table has no row.
TableOpcode(w) ==
    CASE OP(w) = 0 ->
            IF w = 224 THEN "Clear" ELSE IF w = 238 THEN "ReturnSub" ELSE "None"
      [] OP(w) = 1 -> "Jump"
      [] OP(w) = 2 -> "GotoSub"
      [] OP(w) = 3 -> "SkipEqual"
      [] OP(w) = 4 -> "SkipNotEqual"
      [] OP(w) = 5 -> "SkipVXEqualVY"
      [] OP(w) = 6 -> "SetVX"
      [] OP(w) = 7 -> "AddVX"
      [] OP(w) = 8 ->
            (CASE N(w) = 0 -> "SetVXToVY"
               [] N(w) = 1 -> "BinaryOr"
               [] N(w) = 2 -> "BinaryAnd"
               [] N(w) = 3 -> "BinaryXor"
               [] N(w) = 4 -> "AddVYToVX"
               [] N(w) = 5 -> "SubVYFromVX"
               [] N(w) = 6 -> "ShiftRight"
               [] N(w) = 7 -> "SubVXFromVY"
               [] N(w) = 14 -> "ShiftLeft"
               [] OTHER -> "unspecified")
      [] OP(w) = 9 -> "SkipVXNotEqualVY"
      [] OP(w) = 10 -> "SetI"
      [] OP(w) = 11 -> "JumpWithOffset"
      [] OP(w) = 12 -> "Random"
      [] OP(w) = 13 -> "Draw"
      [] OP(w) = 14 ->
            (CASE KK(w) = 158 -> "SkipIfKey"
               [] KK(w) = 161 -> "SkipIfNotKey"
               [] OTHER -> "unspecified")
      [] OP(w) = 15 ->
            (CASE KK(w) = 7 -> "SetVXToDT"
               [] KK(w) = 21 -> "SetDTToVX"
               [] KK(w) = 24 -> "SetSTToVX"
               [] KK(w) = 30 -> "AddI"
               [] KK(w) = 10 -> "GetKey"
               [] KK(w) = 41 -> "FontCharacter"
               [] KK(w) = 51 -> "BinaryCodedDecimalConversion"
               [] KK(w) = 85 -> "SaveRegisterToMemory"
               [] KK(w) = 101 -> "LoadRegisterFromMemory"
               [] OTHER -> "unspecified")
      [] OTHER -> "unspecified"

\* C9: for every word the table has a row for, the decoder's result is the
\* opcode of that row.
C9_DecoderFollowsTable ==
    (at = "execute" /\ TableOpcode(inst) # "unspecified")
        => opcode = TableOpcode(inst)

\* C10: decoding returns a value for every word, and a word of family 8, E or
\* F whose sub-selector matches no case decodes to None.
C10_DecodingIsTotal ==
    /\ status # "panic: entered unreachable code"
    /\ (at = "execute" /\ OP(inst) \in {8, 14, 15}
            /\ TableOpcode(inst) = "unspecified")
        => opcode = "None"

\* C11: a word that cannot be decoded makes execute_instruction report
\* DecodeError to its caller: decoding or executing it never ends the process
\* with a panic.
C11_UndecodableWordIsReported ==
    /\ status \notin {"panic: entered unreachable code", "panic: explicit panic"}
    /\ (Done /\ hist[1].opcode = "Error") => msg = "DecodeError"

\* C12: AddReg (8xy4) with x other than 0xF sets Vx to (Vx + Vy) mod 256 and VF
\* to 1 if the sum exceeds 255 and to 0 otherwise, for all pairs of bytes.
C12_AddRegSumAndCarry ==
    (Completed("AddVYToVX") /\ X(hist[1].inst) # VF)
        => LET vx == hist[1].reg[X(hist[1].inst)]
               vy == hist[1].reg[Y(hist[1].inst)]
           IN  /\ reg[X(hist[1].inst)] = (vx + vy) % 256
               /\ reg[VF] = (IF vx + vy > 255 THEN 1 ELSE 0)

\* 0xFF + 0x01 has been added in V0.
C12_Witness ==
    /\ Completed("AddVYToVX")
    /\ X(hist[1].inst) = 0
    /\ Y(hist[1].inst) = 1
    /\ hist[1].reg[0] = 255
    /\ hist[1].reg[1] = 1
    /\ reg[0] = 0
    /\ reg[VF] = 1

\* The flag the opcode that started from h documents, from the registers
\* before it.
DocumentedFlag(h) ==
    LET vx == h.reg[X(h.inst)]
        vy == h.reg[Y(h.inst)]
    IN  CASE h.opcode = "AddVYToVX" -> IF vx + vy > 255 THEN 1 ELSE 0
          [] h.opcode = "SubVYFromVX" -> IF vx >= vy THEN 1 ELSE 0
          [] h.opcode = "SubVXFromVY" -> IF vy >= vx THEN 1 ELSE 0
          [] h.opcode = "ShiftRight" -> vx % 2
          [] h.opcode = "ShiftLeft" -> vx \div 128
          [] OTHER -> -1

FlagSetters ==
    {"AddVYToVX", "SubVYFromVX", "SubVXFromVY", "ShiftRight", "ShiftLeft"}

\* C13: after AddReg, SubVYFromVX, SubVXFromVY, ShiftRight and ShiftLeft, for
\* every x including 0xF, VF holds the flag of that opcode and not the
\* arithmetic result.
C13_FlagSurvivesInVF ==
    (Done /\ hist[1].opcode \in FlagSetters) => reg[VF] = DocumentedFlag(hist[1])

\* C14: BCDConvert(x) stores the decimal digits of Vx: memory[I], memory[I+1]
\* and memory[I+2] are each in 0..9 and memory[I]*100 + memory[I+1]*10 +
\* memory[I+2] equals Vx, for every Vx in 0..255.
C14_BcdStoresDecimalDigits ==
    Completed("BinaryCodedDecimalConversion") =>
        /\ \A i \in 0..2 : mem[index + i] \in 0..9
        /\ mem[index] * 100 + mem[index + 1] * 10 + mem[index + 2]
                = hist[1].reg[X(hist[1].inst)]

\* The last instruction was StoreRegs(x) and it copied V0..Vx to memory[I..I+x]
\* and changed nothing else.
StoredExactly ==
    LET x == X(hist[1].inst) IN
    /\ \A i \in 0..x : mem[index + i] = hist[1].reg[i]
    /\ \A a \in 0..(MemSize - 1) :
            (a < index \/ a > index + x) => mem[a] = hist[1].mem[a]
    /\ reg = hist[1].reg
    /\ index = hist[1].index

\* The last instruction was LoadRegs(x) and it copied memory[I..I+x] to V0..Vx
\* and changed nothing else.
LoadedExactly ==
    LET x == X(hist[1].inst) IN
    /\ \A i \in 0..x : reg[i] = hist[1].mem[index + i]
    /\ \A i \in (x + 1)..(NumRegs - 1) : reg[i] = hist[1].reg[i]
    /\ mem = hist[1].mem
    /\ index = hist[1].index

\* The last two instructions were StoreRegs(x) and then LoadRegs(x).
StoredThenLoaded ==
    /\ Completed("LoadRegisterFromMemory")
    /\ Len(hist) >= 2
    /\ hist[2].opcode = "SaveRegisterToMemory"
    /\ X(hist[2].inst) = X(hist[1].inst)

\* C15: StoreRegs(x) copies exactly V0..Vx to memory[I..I+x] and changes no
\* other memory cell, no register and not I; LoadRegs(x) copies exactly
\* memory[I..I+x] into V0..Vx and changes no register above Vx, no memory cell
\* and not I; StoreRegs(x) followed by LoadRegs(x) leaves all registers as
\* they were.
C15_StoreAndLoadAreExact ==
    /\ Completed("SaveRegisterToMemory") => StoredExactly
    /\ Completed("LoadRegisterFromMemory") => LoadedExactly
    /\ StoredThenLoaded => reg = hist[2].reg

\* V0..V2 = 200, 7, 0 have been stored at 0x300 and loaded back.
C15_Witness ==
    /\ StoredThenLoaded
    /\ X(hist[1].inst) = 2
    /\ index = 768
    /\ hist[2].reg[0] = 200
    /\ mem[768] = 200
    /\ mem[769] = 7
    /\ reg[0] = 200

\* The number of sprite rows a draw that started from h reads for certain: it
\* stops after the row that lands on row 30.
RowsRead(h) ==
    IF N(h.inst) = 0 THEN 0
    ELSE IF DrawRowOf(h) >= DispHeight - 2 THEN 1
    ELSE Min(N(h.inst), DispHeight - 1 - DrawRowOf(h))

\* The highest memory address the instruction that started from h uses, -1
\* when it uses none.
LastAddress(h) ==
    CASE h.opcode = "BinaryCodedDecimalConversion" -> h.index + 2
      [] h.opcode = "SaveRegisterToMemory" -> h.index + X(h.inst)
      [] h.opcode = "LoadRegisterFromMemory" -> h.index + X(h.inst)
      [] h.opcode = "Draw" -> IF RowsRead(h) = 0 THEN -1 ELSE h.index + RowsRead(h) - 1
      [] OTHER -> -1

\* execute_instruction has returned or panicked: hist[1] is the Cpu it
\* started from.
Executed ==
    /\ Len(hist) >= 1
    /\ at = "timers" \/ (at = "execute" /\ status # "running")

\* C16: when Draw, BCDConvert, StoreRegs or LoadRegs would use a memory
\* address of 0x1000 or above, the instruction yields LoadError and modifies
\* no memory byte and no register.
C16_AddressIsCheckedFirst ==
    (Executed /\ LastAddress(hist[1]) >= MemSize)
        => /\ status = "running"
           /\ msg = "LoadError"
           /\ mem = hist[1].mem
           /\ reg = hist[1].reg

\* The logical key the key query that started from h saw, NoKey when there
\* was none.
KeySeenIn(h) == IF h.polled # << >> THEN Keypress(Head(h.polled)) ELSE NoKey

\* The last instruction was a GetKey that saw no key.
WaitedForKey ==
    /\ Len(hist) >= 1
    /\ hist[1].opcode = "GetKey"
    /\ KeySeenIn(hist[1]) = NoKey

\* C17: after a GetKey executed while no key is pressed, pc is the address of
\* that GetKey, the next fetch reads it again, and memory, registers, I, the
\* call stack and the framebuffer are unchanged.
C17_GetKeyWithoutKeyStays ==
    /\ (Done /\ WaitedForKey) =>
            /\ pc = hist[1].addr
            /\ mem = hist[1].mem
            /\ reg = hist[1].reg
            /\ index = hist[1].index
            /\ stack = hist[1].stack
            /\ disp = hist[1].disp
    /\ (status = "running" /\ at = "decode" /\ WaitedForKey) =>
            (inst = hist[1].inst /\ pc = hist[1].pc)

\* GetKey has been executed twice in a row at the same address, without a key.
C17_Witness ==
    /\ Done
    /\ WaitedForKey
    /\ hist[1].polled = << >>
    /\ Len(hist) >= 2
    /\ hist[2].opcode = "GetKey"
    /\ hist[2].addr = hist[1].addr
    /\ pc = hist[1].addr

\* The first logical key among the queued events, NoKey when there is none.
RECURSIVE FirstKey(_)
FirstKey(evs) ==
    IF evs = << >> THEN NoKey
    ELSE IF Keypress(Head(evs)) # NoKey THEN Keypress(Head(evs))
    ELSE FirstKey(Tail(evs))

\* The engine is re-issuing the GetKey at address a: its last execution saw no
\* key.
Reissuing(a) == status = "running" /\ WaitedForKey /\ hist[1].addr = a

\* The GetKey at address a has completed with key k.
GotKey(a, k) ==
    /\ Done
    /\ hist[1].opcode = "GetKey"
    /\ hist[1].addr = a
    /\ reg[X(hist[1].inst)] = k
    /\ pc = a + 2

KeyAddrs == {WordAddr(2), WordAddr(3)}
PressableKeys == { Keypress(e) : e \in TypedKeys } \ {NoKey}

\* C18: when the engine is re-issuing GetKey(x) and a logical key k is
\* available from the input source, GetKey eventually completes with Vx = k
\* and pc on the instruction after it; while it is re-issued, pc is on the
\* GetKey or, between its fetch and its execution, just after it.
C18_GetKeyEventuallyGetsKey ==
    /\ \A a \in KeyAddrs : \A k \in PressableKeys :
            (Reissuing(a) /\ FirstKey(events) = k) ~> GotKey(a, k)
    /\ [](\A a \in KeyAddrs :
            Reissuing(a) => IF at \in {"timers", "fetch"} THEN pc = a ELSE pc = a + 2)

\* A GetKey that saw no key has been executed again and has stored the key.
C18_Witness ==
    /\ Done
    /\ Len(hist) >= 2
    /\ hist[2].opcode = "GetKey"
    /\ KeySeenIn(hist[2]) = NoKey
    /\ hist[1].opcode = "GetKey"
    /\ hist[1].addr = hist[2].addr
    /\ KeySeenIn(hist[1]) = 15
    /\ reg[1] = 15
    /\ pc = hist[1].addr + 2

\* The key query that started from h saw a key whose logical code equals Vx.
SawKeyOfVx(h) == KeySeenIn(h) # NoKey /\ KeySeenIn(h) = h.reg[X(h.inst)]

\* The last instruction skipped, or did not skip, the instruction after it.
Skipped == pc = hist[1].pc + 2
NotSkipped == pc = hist[1].pc

\* C19: SkipIfKey(x) skips exactly when the input source reports a key whose
\* logical code equals Vx; SkipIfNotKey(x) skips exactly in the other case (a
\* different key, or no key); neither changes a register.
C19_KeySkipsAreComplementary ==
    /\ Completed("SkipIfKey") =>
            /\ IF SawKeyOfVx(hist[1]) THEN Skipped ELSE NotSkipped
            /\ reg = hist[1].reg
    /\ Completed("SkipIfNotKey") =>
            /\ IF SawKeyOfVx(hist[1]) THEN NotSkipped ELSE Skipped
            /\ reg = hist[1].reg

\* SkipIfKey has skipped on 'v' with V0 = 0xF.
C19_Witness ==
    /\ Completed("SkipIfKey")
    /\ hist[1].polled = << "v" >>
    /\ hist[1].reg[0] = 15
    /\ Skipped

\* A timer tick: the run loop finds that more than 1/60 s has passed and
\* resets its reference clock.
Tick == at = "timers" /\ status = "running" /\ elapsed /\ ~elapsed'

\* The value of a timer after a tick.
Ticked(t) == IF t = 0 THEN 0 ELSE t - 1

\* The step executes SetDT (SetST): the timer takes the value of Vx.
SetsDT == Arm("SetDTToVX") /\ at' = "timers" /\ dt' = reg[X(inst)]
SetsST == Arm("SetSTToVX") /\ at' = "timers" /\ st' = reg[X(inst)]

\* C20: on every timer tick each of the delay timer and the sound timer is
\* decremented by 1 if it is not 0 and stays 0 if it is, whatever the other
\* is; both timers are in 0..255 in every reachable state; a timer changes
\* only in a tick or in its SetDT / SetST.
C20_TimersTickIndependently ==
    /\ [](dt \in 0..ByteMax /\ st \in 0..ByteMax)
    /\ [][ /\ Tick => dt' = Ticked(dt) /\ st' = Ticked(st)
           /\ dt' # dt => Tick \/ SetsDT
           /\ st' # st => Tick \/ SetsST ]_vars

\* After dt = 2 and st = 0 were set, one tick has passed: the delay timer was
\* read back as 1 and the sound timer is still 0.
C20_Witness ==
    /\ Completed("SetVXToDT")
    /\ reg[0] = 2
    /\ reg[1] = 0
    /\ reg[2] = 1
    /\ dt = 1
    /\ st = 0

\* The step decrements a timer in the run loop (not by SetDT / SetST).
RunsDown == at = "timers" /\ (dt' # dt \/ st' # st)

LoadedByte(a) ==
    IF a >= FontBase /\ a < FontBase + Len(FONT_SET) THEN FONT_SET[a - FontBase + 1]
    ELSE IF a >= START /\ a < START + Len(rom) THEN rom[a - START + 1]
    ELSE 0

\* load_rom has returned and run has not started yet.
Loaded == status = "running" /\ at = "run"

\* C22: after Cpu::new, load_font_set and load_rom of a ROM of at most 3584
\* bytes, pc is 0x200, the registers, I, the timers, the stack and the
\* display are zero, and memory holds the font table at 0x50..0x9F, the ROM
\* from 0x200 and 0 everywhere else.
C22_LoadedImage ==
    (Loaded /\ Len(rom) <= RomMax) =>
        /\ pc = START
        /\ reg = ZeroReg
        /\ index = 0
        /\ dt = 0
        /\ st = 0
        /\ stack = ZeroStack
        /\ disp = ZeroDisp
        /\ \A a \in 0..(MemSize - 1) : mem[a] = LoadedByte(a)

\* A ROM of exactly 3584 bytes has been loaded, up to the last cell.
C22_Witness ==
    /\ Loaded
    /\ Len(rom) = RomMax
    /\ mem[MemSize - 1] = rom[RomMax]
    /\ mem[MemSize - 1] # 0
    /\ mem[FontBase] = FONT_SET[1]

\* C23: loading a ROM longer than 3584 bytes does not abort the process, ends
\* in the result LoadError and leaves memory as it was before the load.
C23_LongRomIsRejected ==
    (Len(rom) > RomMax /\ at # "load_font_set") =>
        /\ status \in {"running", "LoadError"}
        /\ mem = FontMem

\* The font table is in memory m as load_font_set left it.
FontIntact(m) ==
    \A a \in FontBase..(FontBase + Len(FONT_SET) - 1) : m[a] = FontMem[a]

\* The five bytes of the glyph of digit d in the font table.
Glyph(d) == [k \in 1..5 |-> FONT_SET[5 * d + k]]

\* C24: with the font table intact, FontCharacter(x) with Vx = d, a hex
\* digit, sets I to 0x50 + 5 * d, where memory holds the five glyph bytes of
\* d, and changes no register.
C24_FontCharacterFindsGlyph ==
    (/\ Completed("FontCharacter")
     /\ hist[1].reg[X(hist[1].inst)] \in 0..15
     /\ FontIntact(hist[1].mem)) =>
        /\ index = FontBase + 5 * hist[1].reg[X(hist[1].inst)]
        /\ [k \in 1..5 |-> mem[index + k - 1]] = Glyph(hist[1].reg[X(hist[1].inst)])
        /\ reg = hist[1].reg

\* FontCharacter has found the glyph of F through VF.
C24_Witness ==
    /\ Completed("FontCharacter")
    /\ X(hist[1].inst) = VF
    /\ hist[1].reg[VF] = 15
    /\ FontIntact(mem)
    /\ index = FontBase + 75
    /\ mem[index] = 240
    /\ mem[index + 4] = 128

\* I after AddI from h, as a 16-bit value.
AddedIndex(h) == (h.index + h.reg[X(h.inst)]) % (WordMax + 1)

\* C25: AddI(x) sets I to I + Vx and VF to 1 when the new I is 0x1000 or
\* more; when it is below, VF keeps its value; no other register changes.
C25_AddIOnlyRaisesFlag ==
    Completed("AddI") =>
        /\ index = AddedIndex(hist[1])
        /\ reg = IF AddedIndex(hist[1]) >= MemSize
                 THEN [hist[1].reg EXCEPT ![VF] = 1]
                 ELSE hist[1].reg

\* AddI has added V0 = 255 to I = 0, and VF is still the 7 the program had
\* put there.
C25_Witness ==
    /\ Completed("AddI")
    /\ X(hist[1].inst) = 0
    /\ hist[1].index = 0
    /\ index = ByteMax
    /\ hist[1].reg[VF] = 7
    /\ reg[VF] = 7

\* The word being decoded is the word of the instruction before it.
SameWordAgain == Len(hist) >= 1 /\ hist[1].inst = inst

SkipOps == {"SkipEqual", "SkipNotEqual", "SkipVXEqualVY", "SkipVXNotEqualVY"}

\* The comparison of the skip that is about to be executed holds.
ComparisonHolds ==
    CASE opcode = "SkipEqual" -> reg[X(inst)] = KK(inst)
      [] opcode = "SkipNotEqual" -> reg[X(inst)] # KK(inst)
      [] opcode = "SkipVXEqualVY" -> reg[X(inst)] = reg[Y(inst)]
      [] opcode = "SkipVXNotEqualVY" -> reg[X(inst)] # reg[Y(inst)]
      [] OTHER -> FALSE

\* C27: SkipEqual, SkipNotEqual, SkipVXEqualVY and SkipVXNotEqualVY add 2 to
\* pc when their comparison holds and leave pc alone when it does not, and
\* change nothing else of the Cpu.
C27_SkipsFollowComparison ==
    [][(at = "execute" /\ status = "running" /\ opcode \in SkipOps) =>
            /\ pc' = IF ComparisonHolds THEN pc + 2 ELSE pc
            /\ UNCHANGED <<mem, disp, index, stack, dt, st, reg>>]_vars

\* SkipNotEqual has skipped with Vx = 2 against kk = 1.
C27_Witness ==
    /\ Completed("SkipNotEqual")
    /\ hist[1].reg[X(hist[1].inst)] = 2
    /\ KK(hist[1].inst) = 1
    /\ pc = hist[1].pc + 2

\* C28: AddVX(x, kk) with x not 0xF sets Vx to (Vx + kk) mod 256 and leaves
\* VF and every other register as they were, also when the sum is above 255.
C28_AddVXLeavesFlag ==
    (Completed("AddVX") /\ X(hist[1].inst) # VF) =>
        reg = [hist[1].reg EXCEPT
                  ![X(hist[1].inst)] =
                      (hist[1].reg[X(hist[1].inst)] + KK(hist[1].inst)) % 256]

\* AddVX has added 2 to V14 = 255 with VF = 1: V14 is 1 and VF is still 1.
C28_Witness ==
    /\ Completed("AddVX")
    /\ X(hist[1].inst) = 14
    /\ hist[1].reg[14] = ByteMax
    /\ KK(hist[1].inst) = 2
    /\ hist[1].reg[VF] = 1
    /\ reg[14] = 1
    /\ reg[VF] = 1

\* Vx before the last instruction.
OldVx == hist[1].reg[X(hist[1].inst)]

SignalFor(h) ==
    CASE h.opcode = "Clear" -> << ClearScreenMsg >>
      [] h.opcode = "Draw" -> << DrawScreenMsg(disp) >>
      [] OTHER -> << >>

SendStep == at = "timers" /\ at' = "fetch"

C30_DisplaySignals ==
    /\ [](at = "run" => sent = << >>)
    /\ [](at # "run" => Len(sent) >= 1 /\ sent[1] = ClearScreenMsg)
    /\ [][at = "run" => sent' = << ClearScreenMsg >> /\ hist' = << >>]_vars
    /\ [][SendStep => sent' = sent \o SignalFor(hist[1])]_vars
    /\ [][(at # "run" /\ ~SendStep) => sent' = sent]_vars

\* Two draws in a row have been sent, the second changed the display, and
\* the first message still holds the display as the first draw left it.
C30_Witness ==
    /\ at = "fetch"
    /\ Len(sent) = 3
    /\ Len(hist) = 2
    /\ hist[1].opcode = "Draw"
    /\ hist[2].opcode = "Draw"
    /\ sent[2] = DrawScreenMsg(hist[1].disp)
    /\ sent[3] = DrawScreenMsg(disp)
    /\ disp # hist[1].disp
    /\ hist[1].disp # ZeroDisp

\* C31: the engine never waits for the holder of the Receiver: as long as it
\* is running it can take its next step, however many of the messages sent
\* have been received.
C31_EngineNeverWaits == [](status = "running" => ENABLED EngineChannel)

\* Three draws and clears have been handed off, none has been received, and
\* the engine is at its next fetch.
C31_Witness ==
    /\ status = "running"
    /\ at = "fetch"
    /\ connected
    /\ received = 0
    /\ Len(sent) = 3
    /\ sent[3].kind = "DrawScreen"
    /\ hist[1].opcode = "Draw"

\* C32: on an empty stack GotoSub(nnn) stores pc in slot 0 and sets pc to
\* nnn; a ReturnSub with exactly one address stored sets pc to it and frees
\* its slot; so a return right after a call on the empty stack restores pc to
\* the address after the call and leaves the stack empty.
Occupied(s) == { i \in 0..(StackSize - 1) : s[i] # 0 }

C32_CallThenReturn ==
    /\ (Completed("GotoSub") /\ hist[1].stack = ZeroStack)
           => /\ stack = [ZeroStack EXCEPT ![0] = hist[1].pc]
              /\ pc = NNN(hist[1].inst)
    /\ (Completed("ReturnSub") /\ Cardinality(Occupied(hist[1].stack)) = 1)
           => /\ \E i \in Occupied(hist[1].stack) : pc = hist[1].stack[i]
              /\ stack = ZeroStack
    /\ (Completed("ReturnSub") /\ Len(hist) >= 2 /\ hist[2].opcode = "GotoSub"
            /\ hist[2].stack = ZeroStack)
           => /\ pc = hist[2].addr + 2
              /\ stack = ZeroStack

\* A call on the empty stack has been followed by a return.
C32_Witness ==
    /\ Completed("ReturnSub")
    /\ Len(hist) >= 2
    /\ hist[2].opcode = "GotoSub"
    /\ hist[2].stack = ZeroStack
    /\ Occupied(hist[1].stack) = {0}
    /\ pc = hist[2].addr + 2
    /\ stack = ZeroStack

\* C33: a word of family 0 other than 00E0 and 00EE decodes to None, its
\* execution changes nothing in the Cpu (pc stays where the fetch left it,
\* two past the word) and returns the message None, and nothing is sent.
NoneWord(w) == OP(w) = 0 /\ w \notin {I_CLS, I_RET}

C33_NoneChangesNothing ==
    /\ []((at = "execute" /\ NoneWord(inst)) => opcode = "None")
    /\ [][(at = "execute" /\ NoneWord(inst))
            => (UNCHANGED cpuVars /\ msg' = "None" /\ status' = "running"
                /\ at' = "timers")]_vars
    /\ []((Done /\ NoneWord(hist[1].inst)) => pc = hist[1].addr + 2)
    /\ [][(at = "timers" /\ NoneWord(hist[1].inst)) => sent' = sent]_vars

\* 0FFF has been executed with 255 in V1.
C33_Witness ==
    /\ Done
    /\ hist[1].inst = 4095
    /\ hist[1].opcode = "None"
    /\ msg = "None"
    /\ reg[1] = ByteMax
    /\ reg = hist[1].reg
    /\ pc = hist[1].addr + 2

\* C34: a completed Draw has blitted sprite byte i onto row (Vy mod 32) + i
\* for every i < n with that row at most 31, and each of its bits that lands
\* on a column of at most 63: a set bit has flipped its pixel.
BlittedBit(h, i, k) ==
    LET col == DrawCol(h) + k
        row == DrawRowOf(h) + i
    IN  (BitMsb0(h.mem[h.index + i], k) = 1) => disp[col][row] # h.disp[col][row]

C34_DrawReachesLastRow ==
    Completed("Draw") =>
        \A i \in 0..(N(hist[1].inst) - 1), k \in 0..7 :
            (/\ DrawRowOf(hist[1]) + i <= DispHeight - 1
             /\ DrawCol(hist[1]) + k <= DispWidth - 1
             /\ hist[1].index + i < MemSize)
                => BlittedBit(hist[1], i, k)

\* C35: every pixel of the display is 0 or 1 in every reachable state, so is
\* every pixel of every DrawScreen message sent, and draw_screen never
\* reports a pixel other than 0 or 1.
C35_PixelsAreBinary ==
    /\ ~PixelError(disp)
    /\ \A i \in 1..Len(sent) :
          sent[i].kind = "DrawScreen" => ~PixelError(sent[i].frame)

\* A draw that lit a pixel and a draw that erased it have both been sent.
C35_Witness ==
    /\ Len(sent) >= 3
    /\ sent[2].kind = "DrawScreen"
    /\ sent[3].kind = "DrawScreen"
    /\ sent[2].frame[0][0] = 1
    /\ sent[3].frame[0][0] = 0
    /\ reg[VF] = 1
    /\ hist[1].opcode = "Draw"
    /\ at = "fetch"

\* C36: whenever the run loop is about to fetch, pc + 1 <= 0xFFF, so
\* fetch_next reads both bytes of the word inside the 4096 bytes of memory.
C36_FetchStaysInMemory ==
    (status = "running" /\ at = "fetch") => pc + 1 <= MemSize - 1

\* C37: no 16-bit word decodes to Error: the family of every word is in
\* 0..15 and has an arm of its own in the decoder, so the Error arm of
\* execute_instruction is never entered.
C37_ErrorIsUnreachable ==
    /\ OP(inst) \in 0..15
    /\ opcode # "Error"
    /\ ~ENABLED exec_Error
    /\ status # "panic: explicit panic"

\* FF65, a word of the last family, has been decoded.
C37_Witness ==
    /\ at = "execute"
    /\ inst = 65381
    /\ OP(inst) = 15
    /\ opcode = "LoadRegisterFromMemory"

\* C38: the occupied slots of the stack are always a prefix stack[0..depth-1]:
\* GotoSub writes a nonzero address to the lowest free slot and ReturnSub
\* frees the highest occupied slot.
IsPrefix(s) == \A i \in Occupied(s) : \A j \in 0..i : j \in Occupied(s)

HighestOccupied(s) == CHOOSE i \in Occupied(s) : \A j \in Occupied(s) : j <= i

C38_StackIsContiguous ==
    /\ IsPrefix(stack)
    /\ (Completed("GotoSub") /\ Occupied(hist[1].stack) # 0..(StackSize - 1))
           => /\ hist[1].pc # 0
              /\ stack = [hist[1].stack EXCEPT
                            ![Cardinality(Occupied(hist[1].stack))] = hist[1].pc]
    /\ (Completed("ReturnSub") /\ Occupied(hist[1].stack) # {})
           => stack = [hist[1].stack EXCEPT
                         ![HighestOccupied(hist[1].stack)] = 0]

\* The events a keyboard can cause: the sixteen characters the key queries
\* match, 'p' for any other character, and an event that is no key press.
Keyboard ==
    {"1", "2", "3", "4", "q", "w", "e", "r", "a", "s", "d", "f", "z", "x", "c",
     "v", "p", "resize"}

\* C39: each of the sixteen key codes 0x0..0xF can be delivered: when GetKey
\* or SkipIfKey is about to poll, for every code k there is a terminal event
\* that the query maps to k.
C39_EveryKeyCodeHasAKey ==
    (at = "execute" /\ opcode \in {"GetKey", "SkipIfKey"})
        => \A k \in 0..15 : \E e \in Keyboard : Keypress(e) = k

\* C40: a key query does not use up the key: when a single key press is all
\* the input and a key query has seen it, the key query executed right after
\* it sees the same key.
C40_KeyQueryKeepsKey ==
    (/\ Done
     /\ Len(hist) >= 2
     /\ hist[1].opcode \in KeyQueries
     /\ hist[2].opcode \in KeyQueries
     /\ hist[1].addr = hist[2].addr + 2
     /\ KeySeenIn(hist[2]) # NoKey)
        => KeySeenIn(hist[1]) = KeySeenIn(hist[2])

============================================================================
